---- MODULE Spec2Model ----
(***************************************************************************)
(* Cronator: the execution orchestration engine.                           *)
(*                                                                         *)
(* The model follows app/services/executor.py.  The service runs on one    *)
(* asyncio event loop, so the code between two awaits is atomic: every     *)
(* action below is one such segment, i.e. the effect of the awaited        *)
(* operation (a database read or commit, a sleep, a process wait) followed *)
(* by the synchronous code up to the next await.  Database rows are shared *)
(* between sessions; what a coroutine has read stays in its local state    *)
(* until it refreshes.                                                     *)
(***************************************************************************)
EXTENDS Integers, Sequences, FiniteSets, TLC

\* ------------------------------------------------------------------ bounds
NumScripts == 1
MaxExec == 2
MaxCalls == 2
MaxCancels == 1
ScriptTimeout == 1
NumJobs == 2
NumEnvs == 2
MaxOps == 2
MaxCleanups == 2
MaxNow == 2
MaxAlerts == 3
MaxLines == 2
MaxLineLen == 2
NumConcurrent == 2
NumFiles == 2
MaxMarkers == 2
MaxWritten == 2
SecondsPerTick == 1800
MaxFires == 2

ScriptIds == 1..NumScripts
ExecIds == 1..MaxExec
Calls == 1..MaxCalls
Cancels == 1..MaxCancels
JobIds == 1..NumJobs
EnvNames == 1..NumEnvs
OpIds == 1..MaxOps
ConcurrentIds == 1..NumConcurrent

\* ----------------------------------------------------------- optional values
\* Python's None / a set value, for nullable columns and locals.
None == <<>>
Some(x) == <<x>>

\* ------------------------------------------------------------ ExecutionStatus
RUNNING == "running"
SUCCESS == "success"
FAILED == "failed"
TIMEOUT == "timeout"
CANCELLED == "cancelled"
TerminalStatuses == {SUCCESS, FAILED, TIMEOUT, CANCELLED}

\* exit status of a process ended by SIGKILL (process.kill())
SIGKILLED == 0 - 9

VARIABLES
    scripts,            \* ids of the Script rows in the database
    deleting,           \* script ids whose delete_script handler passed its running-check
    executions,         \* the Execution rows: id -> row, or NoRow
    next_id,            \* the next autoincrement id of an Execution row
    script_locks,       \* keys of ExecutorService._script_locks
    lock_owner,         \* script id -> the execute call holding that lock, 0 if free
    running_scripts,    \* ExecutorService._running_scripts
    running_processes,  \* keys of ExecutorService.running_processes
    output_queues,      \* ExecutorService.output_queues: id -> events put, or NoQueue
    proc,               \* the OS process spawned for an execution
    call,               \* the execute_script coroutines
    run,                \* the _run_script background tasks, one per execution
    cancel,             \* the cancel_execution coroutines
    artifacts,          \* ids of the executions that have Artifact rows
    alerts,             \* ids of the executions a notification was sent for
    \* SchedulerService and the scripts it schedules
    lifespan,           \* position of the application's startup
    scheduler_running,  \* AsyncIOScheduler.running
    execute_callback,   \* SchedulerService._execute_callback
    enabled,            \* Script.enabled, per scheduled script
    jobs,               \* script ids that have a job in the scheduler
    toggling,           \* script ids whose toggle handler has committed
    fired,              \* per script: trigger fires delivered to _execute_script
    scheduled_calls,    \* per script: execute_script calls made by the scheduler
    \* EnvironmentService._install_dependencies_streaming, one call
    install,            \* its position, attempt, tool invocations, outputs and delays
    \* EnvironmentService and the calls made on it
    env_locks,          \* _env_locks: per lock key, the call holding the lock (0: free)
    validation_lock,    \* _validation_lock: the call holding it (0: free)
    active_installs,    \* _active_installs: per script, installation in progress
    install_queues,     \* install_queues: per script, the call that created its channel
    env_dirs,           \* per script name, the environment directory on disk
    ops,                \* per call on the service: what it is and where it stands
    \* ExecutorService.cleanup_stale_executions
    cleanup,            \* its position, the rows it selected, the calls completed
    \* the wall clock
    now,                \* the value datetime.now(UTC) returns
    \* the Script rows and the scheduler's job table, operation by operation
    db_scripts,         \* Script rows: id -> enabled and cron_expression, or NoScript
    versions,           \* ScriptVersion rows: id -> the cron expressions they hold
    job_table,          \* AsyncIOScheduler's jobs: id -> the job's trigger, or None
    ret,                \* the last operation and the value it returned
    \* the notifications of ExecutorService._finish_execution
    alert_rows,         \* Script rows: id -> alert settings and last_alert_at
    sent,               \* the notifications handed to the alerting service, in order
    \* one execution and its artifacts
    art,                \* its process, its row's status, the markers parsed, the Artifact rows
    disk,               \* the files in the execution's artifacts directory
    \* one call of EnvironmentService.validate_dependencies
    val,                \* its argument, its position, its result, the tool invocations
    \* one call of the rebuild_environment handler
    rebuild,            \* its position and the script it rebuilds
    \* one execution's output
    stream              \* the pipes, the lines read, the events put and got, the text persisted

\* The value of datetime.now(UTC).
Timestamp == Some(now)

exec_vars == <<scripts, deleting, executions, next_id, script_locks, lock_owner,
               running_scripts, running_processes, output_queues, proc, call, run,
               cancel, artifacts, alerts>>
sched_vars == <<lifespan, scheduler_running, execute_callback, enabled, jobs,
                toggling, fired, scheduled_calls>>
env_vars == <<env_locks, validation_lock, active_installs, install_queues, env_dirs, ops>>
jobs_vars == <<db_scripts, versions, job_table, ret>>
alert_vars == <<alert_rows, sent>>
art_vars == <<art, disk>>
more_vars == <<rebuild, stream>>
aux_vars == <<alert_vars, art_vars, val, more_vars>>
rest_vars == <<now, jobs_vars, aux_vars>>
not_jobs_vars == <<exec_vars, sched_vars, install, env_vars, cleanup, now, aux_vars>>
other_vars == <<sched_vars, install, env_vars, cleanup, rest_vars>>
vars == <<exec_vars, other_vars>>

NoRow == [status |-> "absent"]
NoQueue == <<"absent">>
NoProc == [state |-> "none", streams_open |-> FALSE, returncode |-> None, age |-> 0]
IdleCall == [pc |-> "idle", script_id |-> 0, execution_id |-> 0]
NoRun == [pc |-> "none", script_id |-> 0, site |-> "none", status |-> "none",
          exit_code |-> None, error_message |-> "none", end_time |-> None,
          stdout |-> None, artifacts_metadata |-> FALSE,
          pending_exc |-> FALSE, waited |-> 0, found |-> "none"]
IdleCancel == [pc |-> "idle", execution_id |-> 0, process |-> FALSE,
               script_id |-> None, finished_at |-> None]

Exists(e) == executions[e] # NoRow

\* A background task that has ended: its locals are gone.
Ended(r) == [NoRun EXCEPT !.pc = "ended", !.script_id = r.script_id]

InitExecutor ==
    /\ scripts = ScriptIds
    /\ deleting = {}
    /\ executions = [e \in ExecIds |-> NoRow]
    /\ next_id = 1
    /\ script_locks = {}
    /\ lock_owner = [s \in ScriptIds |-> 0]
    /\ running_scripts = {}
    /\ running_processes = {}
    /\ output_queues = [e \in ExecIds |-> NoQueue]
    /\ proc = [e \in ExecIds |-> NoProc]
    /\ call = [c \in Calls |-> IdleCall]
    /\ run = [e \in ExecIds |-> NoRun]
    /\ cancel = [k \in Cancels |-> IdleCancel]
    /\ artifacts = {}
    /\ alerts = {}

\* SchedulerService.__init__, before the application's startup has run: no
\* callback, the scheduler stopped, no job.  The scripts start enabled.
\* A scheduler service on which set_execute_callback has been called.
InitSchedulerCallbackSet ==
    /\ lifespan = "not_started"
    /\ scheduler_running = FALSE
    /\ execute_callback = Some("execute_script")
    /\ enabled = [s \in JobIds |-> TRUE]
    /\ jobs = {}
    /\ toggling = {}
    /\ fired = [s \in JobIds |-> 0]
    /\ scheduled_calls = [s \in JobIds |-> 0]

InitScheduler ==
    /\ lifespan = "not_started"
    /\ scheduler_running = FALSE
    /\ execute_callback = None
    /\ enabled = [s \in JobIds |-> TRUE]
    /\ jobs = {}
    /\ toggling = {}
    /\ fired = [s \in JobIds |-> 0]
    /\ scheduled_calls = [s \in JobIds |-> 0]

\* No Script row under an id.
NoScript == [enabled |-> FALSE, cron_expression |-> <<>>, exists |-> FALSE]

\* No script has been created, the scheduler has no job.
InitJobs ==
    /\ db_scripts = [s \in JobIds |-> NoScript]
    /\ versions = [s \in JobIds |-> {}]
    /\ job_table = [s \in JobIds |-> None]
    /\ ret = [op |-> "none", value |-> None]

\* validate_dependencies has not been called.
NoVal ==
    [pc |-> "idle", dependencies |-> <<>>, valid |-> FALSE, message |-> "none",
     packages |-> <<>>, invocations |-> 0]

\* An execution whose process has not been spawned: no marker, no Artifact row.
NoArt ==
    [pc |-> "idle", row_status |-> "running", exit_code |-> None,
     artifacts_metadata |-> <<>>, records |-> <<>>]

\* An execution whose process has not been spawned: nothing written, read,
\* put or persisted.
NoStream ==
    [pc |-> "idle", open |-> FALSE,
     pipe |-> [stdout |-> <<>>, stderr |-> <<>>],
     stdout_lines |-> <<>>, stderr_lines |-> <<>>,
     queue |-> <<>>, delivered |-> <<>>,
     status |-> "running", stdout |-> None, stderr |-> None]

\* The rebuild_environment handler has not been called.
NoRebuild == [pc |-> "idle", script_id |-> 0]

\* Script rows as created with the defaults of the model: failure alerts
\* on, success alerts off, no alert sent yet; nothing has been sent.
InitAux ==
    /\ alert_rows = [s \in JobIds |->
                       [alert_on_failure |-> TRUE, alert_on_success |-> FALSE,
                        last_alert_at |-> None]]
    /\ sent = <<>>
    /\ art = NoArt
    /\ disk = {}
    /\ val = NoVal
    /\ rebuild = NoRebuild
    /\ stream = NoStream

\* A call on the environment service that has not been made yet.
NoOp ==
    [kind |-> "none", name |-> 0, deps |-> FALSE, pc |-> "idle", queue |-> 0,
     stages |-> <<>>, failed |-> "none", lib_failed |-> FALSE, result |-> "none",
     events |-> <<>>]

\* EnvironmentService.__init__: no lock held, no install active, no channel;
\* no environment on disk.
InitEnvironment ==
    /\ env_locks = [k \in EnvNames |-> 0]
    /\ validation_lock = 0
    /\ active_installs = [n \in EnvNames |-> FALSE]
    /\ install_queues = [n \in EnvNames |-> 0]
    /\ env_dirs = [n \in EnvNames |-> "absent"]
    /\ ops = [o \in OpIds |-> NoOp]

\* cleanup_stale_executions is not running and has not been called.
IdleCleanup == [pc |-> "idle", stale_executions |-> {}, calls |-> 0]

\* No dependency install has been started.
NoInstall ==
    [pc |-> "idle", attempt |-> 0, invocations |-> 0, outputs |-> <<>>,
     delays |-> <<>>, result |-> "none", raised |-> FALSE]

Init ==
    /\ InitExecutor
    /\ InitScheduler
    /\ install = NoInstall
    /\ InitEnvironment
    /\ cleanup = IdleCleanup
    /\ InitJobs
    /\ InitAux
    /\ now = 0

\* ---------------------------------------------------------------- execute_script
\* Calls that have been issued and have not yet returned or raised.
PendingCalls == {c \in Calls : call[c].pc \in {"start", "locked", "admitted"}}

\* is_script_running
is_script_running(s) == s \in running_scripts

\* A caller invokes execute_script(script_id).  Calls are issued in slot order;
\* a call is issued only if a row id is left for it.  Script ids are
\* interchangeable, so the first call names script 1.
execute_script_call(c, s) ==
    /\ call[c].pc = "idle"
    /\ \A d \in Calls : d < c => call[d].pc # "idle"
    /\ c = 1 => s = 1
    /\ next_id + Cardinality(PendingCalls) <= MaxExec
    /\ call' = [call EXCEPT ![c] = [pc |-> "start", script_id |-> s, execution_id |-> 0]]
    /\ UNCHANGED <<scripts, deleting, executions, next_id, script_locks, lock_owner,
                   running_scripts, running_processes, output_queues, proc, run,
                   cancel,
                   artifacts, alerts, other_vars>>

\* One lock for all scripts.
get_script_lock_shared(script_id) == 1

\* _get_script_lock: the lock of a script, identified by its key in
\* _script_locks, the script id.
get_script_lock(script_id) == script_id

\* _get_script_lock and the entry of "async with lock"
execute_script_acquire(c) ==
    /\ call[c].pc = "start"
    /\ lock_owner[get_script_lock(call[c].script_id)] = 0
    /\ script_locks' = script_locks \cup {get_script_lock(call[c].script_id)}
    /\ lock_owner' = [lock_owner EXCEPT ![get_script_lock(call[c].script_id)] = c]
    /\ call' = [call EXCEPT ![c].pc = "locked"]
    /\ UNCHANGED <<scripts, deleting, executions, next_id, running_scripts,
                   running_processes, output_queues, proc, run, cancel,
                   artifacts, alerts, other_vars>>

\* The body of "async with lock": the admission check, and the lock's release.
execute_script_admit(c) ==
    /\ call[c].pc = "locked"
    /\ lock_owner[get_script_lock(call[c].script_id)] = c
    /\ lock_owner' = [lock_owner EXCEPT ![get_script_lock(call[c].script_id)] = 0]
    /\ IF call[c].script_id \in running_scripts
         THEN /\ call' = [call EXCEPT ![c].pc = "already_running"]
              /\ UNCHANGED running_scripts
         ELSE /\ call' = [call EXCEPT ![c].pc = "admitted"]
              /\ running_scripts' = running_scripts \cup {call[c].script_id}
    /\ UNCHANGED <<scripts, deleting, executions, next_id, script_locks,
                   running_processes, output_queues, proc, run, cancel,
                   artifacts, alerts, other_vars>>

\* The Execution row as execute_script inserts it.
NewExecution(s) ==
    [status |-> RUNNING, script_id |-> s, started_at |-> Timestamp, finished_at |-> None,
     exit_code |-> None, stdout |-> None, error_message |-> "none"]

\* The database part of execute_script: the script is looked up; if it is
\* missing the call raises, else the row is inserted in running state and the
\* background task is created.
execute_script_create(c) ==
    /\ call[c].pc = "admitted"
    /\ IF call[c].script_id \notin scripts
         THEN /\ call' = [call EXCEPT ![c].pc = "not_found"]
              /\ UNCHANGED <<executions, next_id, run>>
         ELSE /\ executions' = [executions EXCEPT ![next_id] = NewExecution(call[c].script_id)]
              /\ next_id' = next_id + 1
              /\ run' = [run EXCEPT ![next_id] =
                           [NoRun EXCEPT !.pc = "created", !.script_id = call[c].script_id]]
              /\ call' = [call EXCEPT ![c].pc = "returned", ![c].execution_id = next_id]
    /\ UNCHANGED <<scripts, deleting, script_locks, lock_owner, running_scripts,
                   running_processes, output_queues, proc, cancel,
                   artifacts, alerts, other_vars>>

\* ------------------------------------------------------------------ the process
\* asyncio.create_subprocess_exec succeeded: the interpreter runs, both pipes open.
Spawned ==
    [state |-> "alive", streams_open |-> TRUE, returncode |-> None, age |-> 0]

\* process.kill(): SIGKILL ends a live process and closes its pipes; on a process
\* that has already exited it changes nothing (ProcessLookupError, or a no-op).
Killed(p) ==
    IF p.state = "alive"
      THEN [p EXCEPT !.state = "dead", !.streams_open = FALSE,
                     !.returncode = Some(SIGKILLED)]
      ELSE p

\* The script closes its stdout and stderr and keeps running.
process_closes_streams(e) ==
    /\ proc[e].state = "alive"
    /\ proc[e].streams_open
    /\ proc' = [proc EXCEPT ![e].streams_open = FALSE]
    /\ UNCHANGED <<scripts, deleting, executions, next_id, script_locks, lock_owner,
                   running_scripts, running_processes, output_queues, call, run,
                   cancel,
                   artifacts, alerts, other_vars>>

\* A wait_for timer that is due: the run awaits the process, the process is
\* alive and the script's timeout has elapsed since the wait began.
TimerDue(e) ==
    /\ run[e].pc = "wait"
    /\ proc[e].state = "alive"
    /\ run[e].waited >= ScriptTimeout

\* The script exits on its own with exit code 0 or 1; the pipes reach EOF.
process_exits(e, code) ==
    /\ proc[e].state = "alive"
    /\ proc' = [proc EXCEPT ![e].state = "dead", ![e].streams_open = FALSE,
                            ![e].returncode = Some(code)]
    /\ UNCHANGED <<scripts, deleting, executions, next_id, script_locks, lock_owner,
                   running_scripts, running_processes, output_queues, call, run,
                   cancel,
                   artifacts, alerts, other_vars>>

\* One unit of time passes for every live process, unless a timer is due: a
\* due timer fires before the clock moves on.  proc[e].age is the time since
\* the spawn, counted up to ScriptTimeout + 1 (the timeout has elapsed and
\* more); run[e].waited is the time since wait_for began.  Both stop with the
\* process.
Tick ==
    /\ \A e \in ExecIds : ~TimerDue(e)
    /\ \E e \in ExecIds : proc[e].state = "alive" /\ proc[e].age <= ScriptTimeout
    /\ proc' = [e \in ExecIds |->
           IF proc[e].state = "alive" /\ proc[e].age <= ScriptTimeout
             THEN [proc[e] EXCEPT !.age = @ + 1] ELSE proc[e]]
    /\ run' = [e \in ExecIds |->
           IF run[e].pc = "wait" /\ proc[e].state = "alive"
             THEN [run[e] EXCEPT !.waited = @ + 1] ELSE run[e]]
    /\ UNCHANGED <<scripts, deleting, executions, next_id, script_locks, lock_owner,
                   running_scripts, running_processes, output_queues, call, cancel,
                   artifacts, alerts, other_vars>>

\* ------------------------------------------------------------------ _run_script
Put(q, ev) == IF q = NoQueue THEN q ELSE Append(q, ev)

\* The call of _finish_execution(status, exit_code, error_message) from `site`
\* ("early": lines 122-165, "inner": lines 332-352, "handler": line 383), up to
\* its first await, the refresh.  stdout, stderr and artifacts_metadata keep
\* their defaults; only the call of line 332 passes them.  The row's stdout
\* stands for stdout and stderr, which the code treats alike.
BeginFinish(r, site, status, exit_code, error_message) ==
    [r EXCEPT !.pc = "fin_refresh", !.site = site, !.status = status,
              !.exit_code = exit_code, !.error_message = error_message,
              !.stdout = None, !.artifacts_metadata = FALSE]

\* First segment of the task: script and execution are read.  If either is gone
\* the task returns (only the outer finally runs).  Otherwise the queue is
\* created; a missing script file finalizes as failed; an existing environment
\* leads to the spawn, a missing one to setup_environment.
run_script_lookup(e, file_exists, env_exists) ==
    /\ run[e].pc = "created"
    /\ IF run[e].script_id \notin scripts \/ ~Exists(e)
         THEN /\ run' = [run EXCEPT ![e] = Ended(@)]
              /\ running_scripts' = running_scripts \ {run[e].script_id}
              /\ UNCHANGED output_queues
         ELSE /\ output_queues' = [output_queues EXCEPT ![e] = <<>>]
              /\ UNCHANGED running_scripts
              /\ run' = [run EXCEPT ![e] =
                     IF ~file_exists
                       THEN BeginFinish([@ EXCEPT !.found = "no_file"],
                                        "early", FAILED, None, "Script file not found")
                     ELSE IF env_exists THEN [@ EXCEPT !.pc = "spawn"]
                     ELSE [@ EXCEPT !.pc = "env_setup", !.found = "no_env"]]
    /\ UNCHANGED <<scripts, deleting, executions, next_id, script_locks, lock_owner,
                   running_processes, proc, call, cancel,
                   artifacts, alerts, other_vars>>

\* A return of setup_environment whose failure is not looked at: the task
\* goes on to the spawn.
run_script_env_setup_ignored(e, outcome) ==
    /\ run[e].pc = "env_setup"
    /\ run' = [run EXCEPT ![e] =
           CASE outcome = "failed" -> [@ EXCEPT !.pc = "spawn", !.found = "setup_failed"]
             [] outcome = "no_python" ->
                  BeginFinish([@ EXCEPT !.found = "no_python"],
                              "early", FAILED, None, "Python not found")
             [] OTHER -> [@ EXCEPT !.pc = "spawn", !.found = "none"]]
    /\ UNCHANGED <<scripts, deleting, executions, next_id, script_locks, lock_owner,
                   running_scripts, running_processes, output_queues, proc, call,
                   cancel, artifacts, alerts, other_vars>>

\* setup_environment returned: failure finalizes as failed with its message;
\* success is followed by the interpreter check.
run_script_env_setup(e, outcome) ==
    /\ run[e].pc = "env_setup"
    /\ run' = [run EXCEPT ![e] =
           CASE outcome = "failed" ->
                  BeginFinish([@ EXCEPT !.found = "setup_failed"],
                              "early", FAILED, None, "Failed to setup environment")
             [] outcome = "no_python" ->
                  BeginFinish([@ EXCEPT !.found = "no_python"],
                              "early", FAILED, None, "Python not found")
             [] OTHER -> [@ EXCEPT !.pc = "spawn", !.found = "none"]]
    /\ UNCHANGED <<scripts, deleting, executions, next_id, script_locks, lock_owner,
                   running_scripts, running_processes, output_queues, proc, call,
                   cancel,
                   artifacts, alerts, other_vars>>

\* An exception raised inside the inner try block: its finally pops the process
\* entry and, when the queue exists, sleeps before putting done; the exception
\* then reaches the outer handler.
RaiseInner(e) ==
    /\ running_processes' = running_processes \ {e}
    /\ IF output_queues[e] # NoQueue
         THEN run' = [run EXCEPT ![e].pc = "inner_sleep", ![e].pending_exc = TRUE]
         ELSE run' = [run EXCEPT ![e] =
                        BeginFinish(@, "handler", FAILED, None, "exception")]

\* create_subprocess_exec returned: the process is registered and both pipes
\* are read; or it raised.
run_script_spawn(e, ok) ==
    /\ run[e].pc = "spawn"
    /\ IF ok
         THEN /\ proc' = [proc EXCEPT ![e] = Spawned]
              /\ running_processes' = running_processes \cup {e}
              /\ run' = [run EXCEPT ![e].pc = "gather"]
         ELSE /\ RaiseInner(e)
              /\ UNCHANGED proc
    /\ UNCHANGED <<scripts, deleting, executions, next_id, script_locks, lock_owner,
                   running_scripts, output_queues, call, cancel,
                   artifacts, alerts, other_vars>>

\* asyncio.gather of the two read_stream loops returned: both pipes are at EOF.
\* Only now is process.wait() awaited under the script's timeout.
run_script_gather(e) ==
    /\ run[e].pc = "gather"
    /\ ~proc[e].streams_open
    /\ run' = [run EXCEPT ![e].pc = "wait", ![e].waited = 0]
    /\ UNCHANGED <<scripts, deleting, executions, next_id, script_locks, lock_owner,
                   running_scripts, running_processes, output_queues, proc, call,
                   cancel,
                   artifacts, alerts, other_vars>>

\* wait_for(process.wait()) returned the exit code; the row is refreshed next.
run_script_exit(e) ==
    /\ run[e].pc = "wait"
    /\ proc[e].state = "dead"
    /\ run' = [run EXCEPT ![e].pc = "refresh", ![e].exit_code = proc[e].returncode]
    /\ UNCHANGED <<scripts, deleting, executions, next_id, script_locks, lock_owner,
                   running_scripts, running_processes, output_queues, proc, call,
                   cancel,
                   artifacts, alerts, other_vars>>

\* wait_for timed out: the process is killed and awaited.
run_script_timeout(e) ==
    /\ TimerDue(e)
    /\ proc' = [proc EXCEPT ![e] = Killed(@)]
    /\ run' = [run EXCEPT ![e].pc = "kill_wait"]
    /\ UNCHANGED <<scripts, deleting, executions, next_id, script_locks, lock_owner,
                   running_scripts, running_processes, output_queues, call, cancel,
                   artifacts, alerts, other_vars>>

\* The killed process was reaped: finalize as timeout.
run_script_killed(e) ==
    /\ run[e].pc = "kill_wait"
    /\ proc[e].state = "dead"
    /\ run' = [run EXCEPT ![e] = BeginFinish(@, "inner", TIMEOUT, None, "Script timed out")]
    /\ UNCHANGED <<scripts, deleting, executions, next_id, script_locks, lock_owner,
                   running_scripts, running_processes, output_queues, proc, call,
                   cancel,
                   artifacts, alerts, other_vars>>

\* db.refresh(execution) of line 324, the choice of the status to finalize
\* with, and the call of _finish_execution with the collected output and the
\* artifact metadata the script reported (artifacts_metadata: some or none).
run_script_refresh(e, artifacts_metadata) ==
    /\ run[e].pc = "refresh"
    /\ IF ~Exists(e)
         THEN RaiseInner(e)
         ELSE /\ run' = [run EXCEPT ![e] =
                    [BeginFinish(@, "inner",
                       IF executions[e].status = CANCELLED THEN CANCELLED
                       ELSE IF run[e].exit_code = Some(0) THEN SUCCESS ELSE FAILED,
                       run[e].exit_code, "none")
                     EXCEPT !.stdout = Some("out"),
                            !.artifacts_metadata = artifacts_metadata]]
              /\ UNCHANGED running_processes
    /\ UNCHANGED <<scripts, deleting, executions, next_id, script_locks, lock_owner,
                   running_scripts, output_queues, proc, call, cancel,
                   artifacts, alerts, other_vars>>

\* ------------------------------------------------------------- _finish_execution
\* An exception raised inside _finish_execution, by the place it was called
\* from: an early call is inside the outer try only, so the handler finalizes
\* as failed; a call from the inner try first runs the inner finally; a call
\* from the handler itself escapes, and only the outer finally runs: the task
\* ends, and with it the last reference to its process object.
RaiseInFinish(e) ==
    CASE run[e].site = "early" ->
           /\ run' = [run EXCEPT ![e] = BeginFinish(@, "handler", FAILED, None, "exception")]
           /\ UNCHANGED <<running_processes, running_scripts, proc>>
      [] run[e].site = "inner" ->
           /\ RaiseInner(e)
           /\ UNCHANGED <<running_scripts, proc>>
      [] OTHER ->
           /\ run' = [run EXCEPT ![e] = Ended(@)]
           /\ running_scripts' = running_scripts \ {run[e].script_id}
           /\ proc' = [proc EXCEPT ![e] = NoProc]
           /\ UNCHANGED running_processes

\* finish_execution_refresh without the test of line 433: a cancelled row is
\* finalized like any other.
finish_execution_refresh_overwrite(e) ==
    /\ run[e].pc = "fin_refresh"
    /\ IF ~Exists(e)
         THEN RaiseInFinish(e)
         ELSE /\ run' = [run EXCEPT ![e] = [@ EXCEPT !.pc = "fin_commit",
                                                     !.end_time = Timestamp]]
              /\ UNCHANGED <<running_processes, running_scripts, proc>>
    /\ UNCHANGED <<scripts, deleting, executions, next_id, script_locks, lock_owner,
                   output_queues, call, cancel, artifacts, alerts, other_vars>>

\* db.refresh(execution) at the top of _finish_execution, and the assignments
\* to the session's object that follow it.  On a cancelled row only the unset
\* fields are assigned (exit_code and end_time keep None where nothing is to be
\* written); otherwise all fields are assigned.  The commit is the next segment.
finish_execution_refresh(e) ==
    /\ run[e].pc = "fin_refresh"
    /\ IF ~Exists(e)
         THEN RaiseInFinish(e)
         ELSE /\ run' = [run EXCEPT ![e] =
                    IF executions[e].status = CANCELLED
                      THEN [@ EXCEPT !.pc = "fin_commit_cancelled",
                              !.exit_code = IF executions[e].exit_code = None THEN @ ELSE None,
                              !.stdout = IF executions[e].stdout = None THEN @ ELSE None,
                              !.end_time = IF executions[e].finished_at = None
                                             THEN Timestamp ELSE None]
                      ELSE [@ EXCEPT !.pc = "fin_commit", !.end_time = Timestamp]]
              /\ UNCHANGED <<running_processes, running_scripts, proc>>
    /\ UNCHANGED <<scripts, deleting, executions, next_id, script_locks, lock_owner,
                   output_queues, call, cancel,
                   artifacts, alerts, other_vars>>

\* The row after the commit of the cancelled branch: unset fields are backfilled.
BackfilledRow(row, r) ==
    [row EXCEPT !.exit_code = IF r.exit_code # None THEN r.exit_code ELSE @,
                !.stdout = IF r.stdout # None THEN r.stdout ELSE @,
                !.finished_at = IF r.end_time # None THEN r.end_time ELSE @]

\* A commit of the normal branch that writes no finish time.
FinalizedRowNoFinish(row, r) ==
    [row EXCEPT !.status = r.status,
                !.exit_code = IF r.exit_code # None THEN r.exit_code ELSE @,
                !.stdout = IF r.stdout # None THEN r.stdout ELSE @,
                !.error_message = IF r.error_message # "none" THEN r.error_message ELSE @]

\* The row after the commit of the normal branch.  The UPDATE carries the
\* attributes whose value differs from the one loaded by the refresh: the row
\* was loaded in a non-cancelled state, and an argument that is None (exit_code
\* on the early, timeout and handler paths, error_message on a process exit)
\* equals the loaded None, so that column is left as it is in the database.
FinalizedRow(row, r) ==
    [row EXCEPT !.status = r.status,
                !.finished_at = r.end_time,
                !.exit_code = IF r.exit_code # None THEN r.exit_code ELSE @,
                !.stdout = IF r.stdout # None THEN r.stdout ELSE @,
                !.error_message = IF r.error_message # "none" THEN r.error_message ELSE @]

\* The task's record once _finish_execution has returned: the arguments of
\* the call are gone and the task reads none of them again.
Returned(r) ==
    [r EXCEPT !.status = "none", !.exit_code = None, !.error_message = "none",
              !.end_time = None, !.stdout = None, !.artifacts_metadata = FALSE]

\* _finish_execution returned to its caller: an early call sleeps before done,
\* a call in the inner try runs the inner finally, the handler sleeps before done.
AfterFinish(e) ==
    CASE run[e].site = "early" ->
           /\ run' = [run EXCEPT ![e] = [Returned(@) EXCEPT !.pc = "early_sleep"]]
           /\ UNCHANGED <<running_processes, running_scripts, proc>>
      [] run[e].site = "inner" ->
           /\ running_processes' = running_processes \ {e}
           /\ IF output_queues[e] # NoQueue
                THEN /\ run' = [run EXCEPT ![e] = [Returned(@) EXCEPT !.pc = "inner_sleep",
                                                                   !.pending_exc = FALSE]]
                     /\ UNCHANGED <<running_scripts, proc>>
                ELSE /\ run' = [run EXCEPT ![e] = Ended(@)]
                     /\ running_scripts' = running_scripts \ {run[e].script_id}
                     /\ proc' = [proc EXCEPT ![e] = NoProc]
      [] OTHER ->
           /\ run' = [run EXCEPT ![e] = [Returned(@) EXCEPT !.pc = "handler_sleep"]]
           /\ UNCHANGED <<running_processes, running_scripts, proc>>

\* db.commit() of _finish_execution.  In the cancelled branch the unset fields
\* are backfilled and the function returns.  In the normal branch the row is
\* finalized, the Artifact rows go in with the same commit, and the alert
\* follows.
finish_execution_commit(e) ==
    /\ run[e].pc \in {"fin_commit", "fin_commit_cancelled"}
    /\ IF ~Exists(e)
         THEN /\ RaiseInFinish(e)
              /\ UNCHANGED <<executions, artifacts>>
         ELSE IF run[e].pc = "fin_commit_cancelled"
         THEN /\ executions' = [executions EXCEPT ![e] = BackfilledRow(@, run[e])]
              /\ AfterFinish(e)
              /\ UNCHANGED artifacts
         ELSE /\ executions' = [executions EXCEPT ![e] = FinalizedRow(@, run[e])]
              /\ artifacts' = IF run[e].artifacts_metadata
                                THEN artifacts \cup {e} ELSE artifacts
              /\ run' = [run EXCEPT ![e] = [@ EXCEPT !.pc = "fin_alert", !.exit_code = None,
                                                    !.error_message = "none",
                                                    !.end_time = None, !.stdout = None,
                                                    !.artifacts_metadata = FALSE]]
              /\ UNCHANGED <<running_processes, running_scripts, proc>>
    /\ UNCHANGED <<scripts, deleting, next_id, script_locks, lock_owner,
                   output_queues, call, cancel, alerts, other_vars>>

\* _send_failure_alert / _send_success_alert after the commit of the normal
\* branch: the script is read in a new session; if it exists and its alert
\* setting (and, for failures, the hourly throttle) allows it, the
\* notification is sent.  `allowed` stands for the setting and the throttle.
\* A status of cancelled passed by the caller sends nothing.
finish_execution_alert(e, allowed) ==
    /\ run[e].pc = "fin_alert"
    /\ alerts' = IF /\ run[e].status \in {FAILED, TIMEOUT, SUCCESS}
                    /\ run[e].script_id \in scripts
                    /\ allowed
                   THEN alerts \cup {e} ELSE alerts
    /\ AfterFinish(e)
    /\ UNCHANGED <<scripts, deleting, executions, next_id, script_locks, lock_owner,
                   output_queues, call, cancel, artifacts, other_vars>>

\* After the sleep of an early failure path: done is put and the task returns
\* through the outer finally, which discards the running marker.
run_script_early_done(e) ==
    /\ run[e].pc = "early_sleep"
    /\ output_queues' = [output_queues EXCEPT ![e] = Put(@, "done")]
    /\ run' = [run EXCEPT ![e] = Ended(@)]
    /\ running_scripts' = running_scripts \ {run[e].script_id}
    /\ proc' = [proc EXCEPT ![e] = NoProc]
    /\ UNCHANGED <<scripts, deleting, executions, next_id, script_locks, lock_owner,
                   running_processes, call, cancel,
                   artifacts, alerts, other_vars>>

\* After the sleep of the inner finally: done is put; a pending exception then
\* reaches the outer handler, which finalizes as failed; otherwise the task
\* ends through the outer finally.
run_script_inner_done(e) ==
    /\ run[e].pc = "inner_sleep"
    /\ output_queues' = [output_queues EXCEPT ![e] = Put(@, "done")]
    /\ IF run[e].pending_exc
         THEN /\ run' = [run EXCEPT ![e] =
                    BeginFinish([@ EXCEPT !.pending_exc = FALSE],
                                "handler", FAILED, None, "exception")]
              /\ UNCHANGED <<running_scripts, proc>>
         ELSE /\ run' = [run EXCEPT ![e] = Ended(@)]
              /\ running_scripts' = running_scripts \ {run[e].script_id}
              /\ proc' = [proc EXCEPT ![e] = NoProc]
    /\ UNCHANGED <<scripts, deleting, executions, next_id, script_locks, lock_owner,
                   running_processes, call, cancel,
                   artifacts, alerts, other_vars>>

\* After the sleep of the handler: done is put and the outer finally runs.
run_script_handler_done(e) ==
    /\ run[e].pc = "handler_sleep"
    /\ output_queues' = [output_queues EXCEPT ![e] = Put(@, "done")]
    /\ run' = [run EXCEPT ![e] = Ended(@)]
    /\ running_scripts' = running_scripts \ {run[e].script_id}
    /\ proc' = [proc EXCEPT ![e] = NoProc]
    /\ UNCHANGED <<scripts, deleting, executions, next_id, script_locks, lock_owner,
                   running_processes, call, cancel,
                   artifacts, alerts, other_vars>>

\* -------------------------------------------------------------- cancel_execution
\* A caller invokes cancel_execution(execution_id): the process entry is looked
\* up before the first await.  Calls are issued in slot order.
cancel_execution_call(k, e) ==
    /\ cancel[k].pc = "idle"
    /\ \A j \in Cancels : j < k => cancel[j].pc # "idle"
    /\ cancel' = [cancel EXCEPT ![k] =
           [IdleCancel EXCEPT !.pc = "check", !.execution_id = e,
                              !.process = (e \in running_processes)]]
    /\ UNCHANGED <<scripts, deleting, executions, next_id, script_locks, lock_owner,
                   running_scripts, running_processes, output_queues, proc, call,
                   run,
                   artifacts, alerts, other_vars>>

\* The status check (lines 563-583) and, on a running row, the kill (586-594)
\* or the return for a row with no process entry (629-637).
cancel_execution_check(k) ==
    LET e == cancel[k].execution_id IN
    /\ cancel[k].pc = "check"
    /\ IF ~Exists(e)
         THEN /\ running_processes' = running_processes \ {e}
              /\ cancel' = [cancel EXCEPT ![k].pc = "returned_false"]
              /\ UNCHANGED <<running_scripts, proc>>
         ELSE IF executions[e].status # RUNNING
         THEN /\ running_processes' = running_processes \ {e}
              /\ running_scripts' = running_scripts \ {executions[e].script_id}
              /\ cancel' = [cancel EXCEPT ![k].pc = "returned_false"]
              /\ UNCHANGED proc
         ELSE IF cancel[k].process
         THEN /\ proc' = [proc EXCEPT ![e] = Killed(@)]
              /\ cancel' = [cancel EXCEPT ![k].pc = "reread"]
              /\ UNCHANGED <<running_processes, running_scripts>>
         ELSE /\ running_scripts' = running_scripts \ {executions[e].script_id}
              /\ cancel' = [cancel EXCEPT ![k].pc = "returned_false"]
              /\ UNCHANGED <<running_processes, proc>>
    /\ UNCHANGED <<scripts, deleting, executions, next_id, script_locks, lock_owner,
                   output_queues, call, run,
                   artifacts, alerts, other_vars>>

\* After the row update of cancel_execution (lines 614-627): with a queue the
\* coroutine sleeps before putting done, without one it cleans up and returns True.
CancelAfterUpdate(k, c) ==
    IF output_queues[c.execution_id] # NoQueue
      THEN /\ cancel' = [cancel EXCEPT ![k] = [c EXCEPT !.pc = "sleep"]]
           /\ UNCHANGED <<running_processes, running_scripts>>
      ELSE /\ cancel' = [cancel EXCEPT ![k] = [c EXCEPT !.pc = "returned_true"]]
           /\ running_processes' = running_processes \ {c.execution_id}
           /\ running_scripts' = IF c.script_id # None
                                   THEN running_scripts \ {c.script_id[1]}
                                   ELSE running_scripts

\* The second read of the row (lines 597-612): a row still running is set to
\* cancelled in the session and committed next; any other row is left alone.
cancel_execution_reread(k) ==
    LET e == cancel[k].execution_id IN
    /\ cancel[k].pc = "reread"
    /\ IF Exists(e) /\ executions[e].status = RUNNING
         THEN /\ cancel' = [cancel EXCEPT ![k].pc = "commit",
                                          ![k].script_id = Some(executions[e].script_id),
                                          ![k].finished_at = Timestamp]
              /\ UNCHANGED <<running_processes, running_scripts>>
         ELSE CancelAfterUpdate(k, [cancel[k] EXCEPT !.script_id =
                    IF Exists(e) THEN Some(executions[e].script_id) ELSE None])
    /\ UNCHANGED <<scripts, deleting, executions, next_id, script_locks, lock_owner,
                   output_queues, proc, call, run,
                   artifacts, alerts, other_vars>>

\* db.commit() of line 607: the row becomes cancelled, whatever it holds by now.
\* The commit of a row that has been deleted raises out of cancel_execution.
cancel_execution_commit(k) ==
    LET e == cancel[k].execution_id IN
    /\ cancel[k].pc = "commit"
    /\ IF ~Exists(e)
         THEN /\ cancel' = [cancel EXCEPT ![k].pc = "raised"]
              /\ UNCHANGED <<executions, running_processes, running_scripts>>
         ELSE /\ executions' = [executions EXCEPT ![e] =
                    [@ EXCEPT !.status = CANCELLED,
                              !.finished_at = cancel[k].finished_at,
                              !.error_message = "Cancelled by user"]]
              /\ CancelAfterUpdate(k, cancel[k])
    /\ UNCHANGED <<scripts, deleting, next_id, script_locks, lock_owner,
                   output_queues, proc, call, run,
                   artifacts, alerts, other_vars>>

\* After the sleep (lines 618-627): done is put, the process entry popped, the
\* running marker of the row's script discarded, and True returned.
cancel_execution_done(k) ==
    LET e == cancel[k].execution_id IN
    /\ cancel[k].pc = "sleep"
    /\ output_queues' = [output_queues EXCEPT ![e] = Put(@, "done")]
    /\ running_processes' = running_processes \ {e}
    /\ running_scripts' = IF cancel[k].script_id # None
                            THEN running_scripts \ {cancel[k].script_id[1]}
                            ELSE running_scripts
    /\ cancel' = [cancel EXCEPT ![k].pc = "returned_true"]
    /\ UNCHANGED <<scripts, deleting, executions, next_id, script_locks, lock_owner,
                   proc, call, run,
                   artifacts, alerts, other_vars>>

\* ------------------------------------------------------------------ delete_script
\* The handler found the script and passed its running-check; it goes on to
\* await the scheduler and the environment service.
delete_script_check(s) ==
    /\ s \in scripts
    /\ s \notin deleting
    /\ ~is_script_running(s)
    /\ deleting' = deleting \cup {s}
    /\ UNCHANGED <<scripts, executions, next_id, script_locks, lock_owner,
                   running_scripts, running_processes, output_queues, proc, call,
                   run, cancel,
                   artifacts, alerts, other_vars>>

\* db.delete(script) and the commit: the script row goes, and with it, by the
\* relationship's cascade, the execution rows of the script and, by the
\* foreign key's ON DELETE CASCADE, their Artifact rows.
delete_script_commit(s) ==
    /\ s \in deleting
    /\ deleting' = deleting \ {s}
    /\ scripts' = scripts \ {s}
    /\ executions' = [e \in ExecIds |->
           IF Exists(e) /\ executions[e].script_id = s THEN NoRow ELSE executions[e]]
    /\ artifacts' = {e \in artifacts : executions[e].script_id # s}
    /\ UNCHANGED <<next_id, script_locks, lock_owner, running_scripts,
                   running_processes, output_queues, proc, call, run, cancel,
                   alerts, other_vars>>

\* ------------------------------------------------------------ rebuild_environment
not_rebuild_vars == <<exec_vars, sched_vars, install, env_vars, cleanup, now, jobs_vars,
                      alert_vars, art_vars, val, stream>>

\* The handler found the script and tests is_script_running: a running script
\* is answered 409; otherwise setup_environment is awaited, which validates
\* the dependencies, removes and recreates the environment directory and
\* installs into it.
rebuild_environment(s) ==
    /\ rebuild.pc = "idle"
    /\ s \in scripts
    /\ rebuild' = [pc |-> IF is_script_running(s) THEN "rejected" ELSE "setup",
                   script_id |-> s]
    /\ UNCHANGED not_rebuild_vars

\* setup_environment returned: the handler answers with its message.
rebuild_environment_returns ==
    /\ rebuild.pc = "setup"
    /\ rebuild' = [rebuild EXCEPT !.pc = "done"]
    /\ UNCHANGED not_rebuild_vars

\* ------------------------------------------------- the output of one execution
not_stream_vars == <<exec_vars, sched_vars, install, env_vars, cleanup, now, jobs_vars,
                     alert_vars, art_vars, val, rebuild>>

StreamKinds == {"stdout", "stderr"}

\* The lines a script prints.
StreamLines == {"a", "b"}

\* The lines read from a pipe so far.
LinesRead(k) == IF k = "stdout" THEN stream.stdout_lines ELSE stream.stderr_lines

\* create_subprocess_exec returned: both pipes are open and empty, and the
\* two read_stream loops start.
stream_spawn ==
    /\ stream.pc = "idle"
    /\ stream' = [stream EXCEPT !.pc = "reading", !.open = TRUE]
    /\ UNCHANGED not_stream_vars

\* The script prints a line to stdout or stderr: the pipe holds the lines in
\* the order written.
process_writes(k, line) ==
    /\ stream.pc = "reading"
    /\ stream.open
    /\ Len(stream.pipe[k]) < MaxWritten
    /\ stream' = [stream EXCEPT !.pipe[k] = Append(@, line)]
    /\ UNCHANGED not_stream_vars

\* The script closes its pipes (or exits).
process_closes ==
    /\ stream.pc = "reading"
    /\ stream.open
    /\ stream' = [stream EXCEPT !.open = FALSE]
    /\ UNCHANGED not_stream_vars

\* One turn of a read_stream loop: readline returns the next line of the
\* pipe; it is appended to the list of its stream and put on the queue.
read_stream(k) ==
    /\ stream.pc = "reading"
    /\ Len(LinesRead(k)) < Len(stream.pipe[k])
    /\ LET decoded == stream.pipe[k][Len(LinesRead(k)) + 1] IN
       stream' = [stream EXCEPT
                     !.stdout_lines = IF k = "stdout" THEN Append(@, decoded) ELSE @,
                     !.stderr_lines = IF k = "stderr" THEN Append(@, decoded) ELSE @,
                     !.queue = Append(@, <<k, decoded>>)]
    /\ UNCHANGED not_stream_vars

\* Both loops have read an empty line (EOF): gather returns and
\* process.wait() is awaited under the timeout.
stream_gather ==
    /\ stream.pc = "reading"
    /\ ~stream.open
    /\ \A k \in StreamKinds : Len(LinesRead(k)) = Len(stream.pipe[k])
    /\ stream' = [stream EXCEPT !.pc = "waiting"]
    /\ UNCHANGED not_stream_vars

\* The process exited in time: the lists are joined and the finalizer writes
\* the texts with the status of the exit code.  (Texts longer than
\* settings.max_log_size are cut after the join; the texts here are the
\* joined ones.)
stream_exit(exit_code) ==
    /\ stream.pc = "waiting"
    /\ stream' = [stream EXCEPT !.pc = "finished",
                                !.status = IF exit_code = 0 THEN SUCCESS ELSE FAILED,
                                !.stdout = Some(stream.stdout_lines),
                                !.stderr = Some(stream.stderr_lines)]
    /\ UNCHANGED not_stream_vars

\* wait_for timed out: the process is killed and the finalizer is called
\* with the status and the message only; stdout and stderr are written as
\* None.
stream_timeout ==
    /\ stream.pc = "waiting"
    /\ stream' = [stream EXCEPT !.pc = "finished", !.status = TIMEOUT,
                                !.stdout = None, !.stderr = None]
    /\ UNCHANGED not_stream_vars

\* The inner finally: done is put on the queue.
stream_done ==
    /\ stream.pc = "finished"
    /\ stream' = [stream EXCEPT !.pc = "done", !.queue = Append(@, <<"done", "">>)]
    /\ UNCHANGED not_stream_vars

\* event_generator: queue.get() returns the oldest event not yet taken.
event_get ==
    /\ Len(stream.delivered) < Len(stream.queue)
    /\ stream' = [stream EXCEPT
                     !.delivered = Append(@, stream.queue[Len(stream.delivered) + 1])]
    /\ UNCHANGED not_stream_vars

\* --------------------------------------------------------------- SchedulerService
\* lifespan: scheduler_service.start().  The scheduler is started, the job
\* table emptied, and the enabled scripts are selected (the await).  Nothing
\* in the application calls set_execute_callback before or after.
scheduler_start ==
    /\ lifespan = "not_started"
    /\ scheduler_running' = TRUE
    /\ jobs' = {}
    /\ lifespan' = "reload"
    /\ UNCHANGED <<execute_callback, enabled, toggling, fired, scheduled_calls,
                   exec_vars, install, env_vars, cleanup, rest_vars>>

\* reload_all_jobs after its select: add_job for every enabled script.
reload_all_jobs ==
    /\ lifespan = "reload"
    /\ jobs' = jobs \cup {s \in JobIds : enabled[s]}
    /\ lifespan' = "started"
    /\ UNCHANGED <<scheduler_running, execute_callback, enabled, toggling, fired,
                   scheduled_calls, exec_vars, install, env_vars, cleanup, rest_vars>>

\* toggle_script up to its commit: Script.enabled is flipped.  Requests are
\* served once the startup has completed.
toggle_script_commit(s) ==
    /\ lifespan = "started"
    /\ s \notin toggling
    /\ enabled' = [enabled EXCEPT ![s] = ~@]
    /\ toggling' = toggling \cup {s}
    /\ UNCHANGED <<lifespan, scheduler_running, execute_callback, jobs, fired,
                   scheduled_calls, exec_vars, install, env_vars, cleanup, rest_vars>>

\* update_job: the job is removed and, for an enabled script, added again.
update_job(s) ==
    /\ s \in toggling
    /\ toggling' = toggling \ {s}
    /\ jobs' = IF enabled[s] THEN jobs \cup {s} ELSE jobs \ {s}
    /\ UNCHANGED <<lifespan, scheduler_running, execute_callback, enabled, fired,
                   scheduled_calls, exec_vars, install, env_vars, cleanup, rest_vars>>

\* The trigger of a registered job fires within its misfire grace window and
\* the scheduler runs SchedulerService._execute_script(script_id): with a
\* callback set it calls executor_service.execute_script(script_id,
\* triggered_by="scheduler"), without one it logs a warning and returns.
scheduler_execute_script(s) ==
    /\ scheduler_running
    /\ s \in jobs
    /\ fired[s] < MaxFires
    /\ fired' = [fired EXCEPT ![s] = @ + 1]
    /\ scheduled_calls' = IF execute_callback # None
                            THEN [scheduled_calls EXCEPT ![s] = @ + 1]
                            ELSE scheduled_calls
    /\ UNCHANGED <<lifespan, scheduler_running, execute_callback, enabled, jobs,
                   toggling, exec_vars, install, env_vars, cleanup, rest_vars>>

\* The trigger of a registered job fires and _execute_script runs, together
\* with what it calls: with a callback set, executor_service.execute_script
\* is entered for the script; without one only the warning is logged.
scheduler_job_fires(c, s) ==
    /\ scheduler_running
    /\ s \in jobs
    /\ s \in ScriptIds
    /\ fired[s] < MaxFires
    /\ fired' = [fired EXCEPT ![s] = @ + 1]
    /\ IF execute_callback # None
         THEN /\ call[c].pc = "idle"
              /\ \A d \in Calls : d < c => call[d].pc # "idle"
              /\ next_id + Cardinality(PendingCalls) <= MaxExec
              /\ call' = [call EXCEPT ![c] =
                            [pc |-> "start", script_id |-> s, execution_id |-> 0]]
              /\ scheduled_calls' = [scheduled_calls EXCEPT ![s] = @ + 1]
         ELSE /\ c = 1
              /\ UNCHANGED <<call, scheduled_calls>>
    /\ UNCHANGED <<lifespan, scheduler_running, execute_callback, enabled, jobs,
                   toggling, scripts, deleting, executions, next_id, script_locks,
                   lock_owner, running_scripts, running_processes, output_queues,
                   proc, run, cancel, artifacts, alerts, install, env_vars,
                   cleanup, rest_vars>>

\* The lifespan has reached its yield: the scheduler is started, the cleanup
\* has been awaited, and the application serves requests.
Serving == lifespan = "started" /\ cleanup.calls >= 1

\* ------------------------------------------- _install_dependencies_streaming
\* retry_config
max_attempts == 3
base_delay == 2
max_delay == 30
backoff_factor == 2

\* Diagnostic lines a run of the install tool can print, lower-cased as the
\* code compares them: one transient pattern, one permanent pattern, and a
\* line that matches no pattern.
RETRYABLE_NETWORK_ERRORS == {"connection timed out"}
NON_RETRYABLE_ERRORS == {"no solution found"}
Diagnostics == RETRYABLE_NETWORK_ERRORS \cup NON_RETRYABLE_ERRORS \cup {"error: build failed"}

\* One run of the tool: its return code and the lines it printed.
ToolOutputs == [returncode : {0, 1}, lines : SUBSET Diagnostics]

is_retryable(out) == out.lines \cap RETRYABLE_NETWORK_ERRORS # {}

\* A classification in which a transient pattern takes precedence.
is_non_retryable_unless_retryable(out) ==
    out.lines \cap NON_RETRYABLE_ERRORS # {} /\ ~is_retryable(out)

is_non_retryable(out) == out.lines \cap NON_RETRYABLE_ERRORS # {}

\* b to the power n
RECURSIVE Pow(_, _)
Pow(b, n) == IF n = 0 THEN 1 ELSE b * Pow(b, n - 1)

Min(a, b) == IF a <= b THEN a ELSE b

\* A delay without the backoff: the same base delay before every retry.
DelayFlat(attempt) == Min(base_delay, max_delay)

\* delay = min(base_delay * backoff_factor ** (attempt - 1), max_delay)
Delay(attempt) == Min(base_delay * Pow(backoff_factor, attempt - 1), max_delay)

\* The call up to the first run of the tool (under the environment's lock):
\* a missing environment fails, an empty package list succeeds, both without
\* running the tool; otherwise attempt 1 starts.
install_dependencies_streaming(env_exists, has_packages) ==
    /\ install.pc = "idle"
    /\ install' =
         IF ~env_exists THEN [install EXCEPT !.pc = "done", !.result = "failed"]
         ELSE IF ~has_packages THEN [install EXCEPT !.pc = "done", !.result = "ok"]
         ELSE [install EXCEPT !.pc = "running", !.attempt = 1, !.invocations = 1]
    /\ UNCHANGED <<exec_vars, sched_vars, env_vars, cleanup, rest_vars>>

\* The tool exited (or could not be started: raised).  Return code 0 is
\* success.  A permanent pattern ends the call; so does a failure that is not
\* transient, and the last attempt; otherwise the delay is computed and slept.
install_tool_exits(out, raised) ==
    /\ install.pc = "running"
    /\ install' =
         IF raised THEN [install EXCEPT !.pc = "done", !.result = "failed",
                                        !.raised = TRUE]
         ELSE LET i == [install EXCEPT !.outputs = Append(@, out)] IN
              IF out.returncode = 0 THEN [i EXCEPT !.pc = "done", !.result = "ok"]
              ELSE IF is_non_retryable(out)
                THEN [i EXCEPT !.pc = "done", !.result = "failed"]
              ELSE IF ~is_retryable(out) \/ install.attempt = max_attempts
                THEN [i EXCEPT !.pc = "done", !.result = "failed"]
              ELSE [i EXCEPT !.pc = "sleeping",
                             !.delays = Append(@, Delay(install.attempt))]
    /\ UNCHANGED <<exec_vars, sched_vars, env_vars, cleanup, rest_vars>>

\* The sleep is over: the next attempt runs the tool again.
install_retry ==
    /\ install.pc = "sleeping"
    /\ install' = [install EXCEPT !.pc = "running", !.attempt = @ + 1,
                                  !.invocations = @ + 1]
    /\ UNCHANGED <<exec_vars, sched_vars, env_vars, cleanup, rest_vars>>

\* install_dependencies (the call without progress events): the diagnostic
\* lines that hold one of its error_indicators, compared lower-cased.  Of the
\* lines of Diagnostics, "no solution found" holds "No solution found" and
\* "error: build failed" holds "error:"; "connection timed out" holds none.
error_indicators == {"no solution found", "error: build failed"}

\* The outcome of install_dependencies on one run of the tool: a missing
\* environment fails and an empty package list succeeds without the tool;
\* otherwise the tool runs once, and the call fails when the output holds an
\* error indicator or the return code is not 0.
install_dependencies(env_exists, has_packages, out) ==
    IF ~env_exists THEN "failed"
    ELSE IF ~has_packages THEN "ok"
    ELSE IF out.lines \cap error_indicators # {} \/ out.returncode # 0 THEN "failed"
    ELSE "ok"

\* ------------------------------------------------------ EnvironmentService
\* One lock shared by every script name.
get_env_lock_shared(script_name) == 1

\* _get_env_lock: the key of the lock of a script name.
get_env_lock(script_name) == script_name

\* settings.base_dir / "cronator_lib" exists in this repository.
cronator_lib_exists == TRUE

Streaming(op) == op.kind = "streaming"

\* send_log / send_error / queue.put: only a streaming call has a channel.
send(op, kinds) == IF Streaming(op) THEN [op EXCEPT !.events = @ \o kinds] ELSE op

\* A return whose finally block puts no done event.
ReturnNoDone(op, failed) ==
    LET r == [op EXCEPT !.pc = "returned", !.failed = failed,
                        !.result = IF failed = "none" THEN "ok" ELSE "failed"]
    IN send(r, <<IF failed = "none" THEN "log" ELSE "error">>)

\* The call returns: a streaming call reports the failure as an error event
\* or the success as a log, and its finally block puts done.
Return(op, failed) ==
    LET r == [op EXCEPT !.pc = "returned", !.failed = failed,
                        !.result = IF failed = "none" THEN "ok" ELSE "failed"]
    IN send(r, <<IF failed = "none" THEN "log" ELSE "error", "done">>)

\* finally: self._active_installs[script_id] = False, for a streaming call.
ClearActive(op) ==
    IF Streaming(op) THEN [active_installs EXCEPT ![op.name] = FALSE]
    ELSE active_installs

\* The stages after validation, up to the next suspension of the call.
BeginCreate(op) ==
    send([op EXCEPT !.pc = "create_wait", !.stages = Append(@, "create")], <<"log">>)

BeginInstall(op) ==
    send([op EXCEPT !.pc = "install_wait", !.stages = Append(@, "install")], <<"log">>)

BeginLib(op) ==
    send([op EXCEPT !.pc = "lib_installing", !.stages = Append(@, "lib")], <<"log">>)

\* The first stage of a setup: validation when there are dependencies.
BeginSetup(op) ==
    IF op.deps
      THEN send([op EXCEPT !.pc = "validate_wait", !.stages = <<"validate">>], <<"log">>)
      ELSE BeginCreate(op)

\* Calls are made in the order of their ids.
MayStart(o) == ops[o].pc = "idle" /\ \A p \in OpIds : p < o => ops[p].pc # "idle"

\* setup_environment is called (rebuild_environment, or a run without an
\* environment).
setup_environment(o, n, d) ==
    /\ MayStart(o)
    /\ ops' = [ops EXCEPT ![o] =
                  BeginSetup([NoOp EXCEPT !.kind = "setup", !.name = n, !.deps = d])]
    /\ UNCHANGED <<env_locks, validation_lock, active_installs, install_queues,
                   env_dirs, exec_vars, sched_vars, install, cleanup, rest_vars>>

\* POST /{script_id}/install: refused while is_installing; creates the channel
\* and schedules setup_environment_streaming as a background task.
start_install(o, n, d) ==
    /\ MayStart(o)
    /\ ~active_installs[n]
    /\ install_queues' = [install_queues EXCEPT ![n] = o]
    /\ ops' = [ops EXCEPT ![o] =
                  [NoOp EXCEPT !.kind = "streaming", !.name = n, !.deps = d,
                               !.pc = "scheduled"]]
    /\ UNCHANGED <<env_locks, validation_lock, active_installs, env_dirs,
                   exec_vars, sched_vars, install, cleanup, rest_vars>>

\* The background task starts: it takes the channel now registered for the
\* script, marks the install active and enters the first stage.
setup_environment_streaming(o) ==
    /\ ops[o].pc = "scheduled"
    /\ active_installs' = [active_installs EXCEPT ![ops[o].name] = TRUE]
    /\ ops' = [ops EXCEPT ![o] =
                  BeginSetup([@ EXCEPT !.queue = install_queues[ops[o].name]])]
    /\ UNCHANGED <<env_locks, validation_lock, install_queues, env_dirs,
                   exec_vars, sched_vars, install, cleanup, rest_vars>>

\* validate_dependencies: async with self._validation_lock
validate_acquire(o) ==
    /\ ops[o].pc = "validate_wait"
    /\ validation_lock = 0
    /\ validation_lock' = o
    /\ ops' = [ops EXCEPT ![o].pc = "validating"]
    /\ UNCHANGED <<env_locks, active_installs, install_queues, env_dirs,
                   exec_vars, sched_vars, install, cleanup, rest_vars>>

\* Validation ends and releases its lock: an invalid list ends the setup, a
\* valid one goes on to the create stage.
validate_done(o, is_valid) ==
    /\ ops[o].pc = "validating"
    /\ validation_lock' = 0
    /\ ops' = [ops EXCEPT ![o] =
                  IF is_valid THEN BeginCreate(send(@, <<"log">>))
                  ELSE Return(@, "validate")]
    /\ active_installs' = IF is_valid THEN active_installs ELSE ClearActive(ops[o])
    /\ UNCHANGED <<env_locks, install_queues, env_dirs, exec_vars, sched_vars, install, cleanup, rest_vars>>

\* create_env / _create_env_streaming: under the lock of the name, an existing
\* directory is removed and a new one made, then the tool is started.
create_acquire(o) ==
    /\ ops[o].pc = "create_wait"
    /\ env_locks[get_env_lock(ops[o].name)] = 0
    /\ env_locks' = [env_locks EXCEPT ![get_env_lock(ops[o].name)] = o]
    /\ env_dirs' = [env_dirs EXCEPT ![ops[o].name] = "partial"]
    /\ ops' = [ops EXCEPT ![o].pc = "creating"]
    /\ UNCHANGED <<validation_lock, active_installs, install_queues,
                   exec_vars, sched_vars, install, cleanup, rest_vars>>

\* The tool exits (printed: it wrote a line, which a streaming call logs);
\* the lock is released.  A failure ends the setup; a success goes on to the
\* support library.
create_done(o, success, printed) ==
    /\ ops[o].pc = "creating"
    /\ env_locks' = [env_locks EXCEPT ![get_env_lock(ops[o].name)] = 0]
    /\ env_dirs' = [env_dirs EXCEPT ![ops[o].name] =
                       IF success /\ @ = "partial" THEN "present" ELSE @]
    /\ LET op == send(ops[o], IF printed THEN <<"log">> ELSE <<>>) IN
       ops' = [ops EXCEPT ![o] =
                 IF ~success THEN Return(op, "create")
                 ELSE IF cronator_lib_exists THEN BeginLib(send(op, <<"log">>))
                 ELSE IF op.deps THEN BeginInstall(send(op, <<"log">>))
                 ELSE Return(send(op, <<"log">>), "none")]
    /\ active_installs' = IF success THEN active_installs ELSE ClearActive(ops[o])
    /\ UNCHANGED <<validation_lock, install_queues, exec_vars, sched_vars, install, cleanup, rest_vars>>

\* _install_cronator_lib / _install_cronator_lib_streaming end (no lock is
\* taken): a failure is logged as a warning and the setup goes on.
install_cronator_lib_done(o, success, printed) ==
    /\ ops[o].pc = "lib_installing"
    /\ LET op == send(ops[o], (IF printed THEN <<"log">> ELSE <<>>) \o <<"log">>)
           op2 == [op EXCEPT !.lib_failed = ~success] IN
       ops' = [ops EXCEPT ![o] =
                 IF op.deps THEN BeginInstall(op2) ELSE Return(op2, "none")]
    /\ active_installs' = IF ops[o].deps THEN active_installs ELSE ClearActive(ops[o])
    /\ UNCHANGED <<env_locks, validation_lock, install_queues, env_dirs,
                   exec_vars, sched_vars, install, cleanup, rest_vars>>

\* install_dependencies / _install_dependencies_streaming: under the lock of
\* the name; without an environment directory it fails at once.
install_acquire(o) ==
    /\ ops[o].pc = "install_wait"
    /\ env_locks[get_env_lock(ops[o].name)] = 0
    /\ IF env_dirs[ops[o].name] = "absent"
         THEN /\ ops' = [ops EXCEPT ![o] = Return(@, "install")]
              /\ active_installs' = ClearActive(ops[o])
              /\ UNCHANGED env_locks
         ELSE /\ ops' = [ops EXCEPT ![o].pc = "installing"]
              /\ env_locks' = [env_locks EXCEPT ![get_env_lock(ops[o].name)] = o]
              /\ UNCHANGED active_installs
    /\ UNCHANGED <<validation_lock, install_queues, env_dirs,
                   exec_vars, sched_vars, install, cleanup, rest_vars>>

\* The install ends (after its retries) and releases the lock.
install_done(o, success, printed) ==
    /\ ops[o].pc = "installing"
    /\ env_locks' = [env_locks EXCEPT ![get_env_lock(ops[o].name)] = 0]
    /\ LET op == send(ops[o], IF printed THEN <<"log">> ELSE <<>>) IN
       ops' = [ops EXCEPT ![o] = Return(op, IF success THEN "none" ELSE "install")]
    /\ active_installs' = ClearActive(ops[o])
    /\ UNCHANGED <<validation_lock, install_queues, env_dirs,
                   exec_vars, sched_vars, install, cleanup, rest_vars>>

InFlightPcs ==
    {"validate_wait", "validating", "create_wait", "creating", "lib_installing",
     "install_wait", "installing"}

\* An exception reaches setup_environment_streaming while it is suspended (is_exception:
\* an Exception, handled by the except block with an error event; otherwise
\* a cancellation).  Locks held are released; the finally block clears the
\* active flag and puts done.
setup_environment_streaming_raises(o, is_exception) ==
    /\ Streaming(ops[o])
    /\ ops[o].pc \in InFlightPcs
    /\ env_locks' = [k \in EnvNames |-> IF env_locks[k] = o THEN 0 ELSE env_locks[k]]
    /\ validation_lock' = IF validation_lock = o THEN 0 ELSE validation_lock
    /\ ops' = [ops EXCEPT ![o] =
                  send([@ EXCEPT !.pc = "returned", !.failed = "raised",
                                !.result = "failed"],
                      (IF is_exception THEN <<"error">> ELSE <<>>) \o <<"done">>)]
    /\ active_installs' = ClearActive(ops[o])
    /\ UNCHANGED <<install_queues, env_dirs, exec_vars, sched_vars, install, cleanup, rest_vars>>

\* delete_env: no script of that name is running; the directory is removed
\* in one synchronous step, without taking any lock.
delete_env(o, n) ==
    /\ MayStart(o)
    /\ n \notin running_scripts
    /\ env_dirs' = [env_dirs EXCEPT ![n] = "absent"]
    /\ ops' = [ops EXCEPT ![o] =
                  [NoOp EXCEPT !.kind = "delete", !.name = n, !.pc = "returned",
                               !.stages = <<"delete">>, !.result = "ok"]]
    /\ UNCHANGED <<env_locks, validation_lock, active_installs, install_queues,
                   exec_vars, sched_vars, install, cleanup, rest_vars>>

\* ------------------------------------------------ cleanup_stale_executions
INTERRUPTED == "Execution interrupted by service restart"

\* Execution rows a previous process instance can have left in the database:
\* a running row as execute_script inserts it, or a terminal row with a
\* finish time and the exit code, output and message of its ending.
PersistedRows ==
    {NoRow}
    \cup {NewExecution(s) : s \in ScriptIds}
    \cup [status : TerminalStatuses, script_id : ScriptIds, started_at : {Timestamp},
          finished_at : {Timestamp}, exit_code : {None, Some(1)},
          stdout : {None, Some("out")},
          error_message : {"none", "Execution timed out"}]

\* The process has just started on a database left by a previous instance.
InitAfterRestart ==
    /\ now = 0
    /\ executions \in [ExecIds -> PersistedRows]
    /\ scripts = ScriptIds
    /\ deleting = {}
    /\ next_id = MaxExec + 1
    /\ script_locks = {}
    /\ lock_owner = [s \in ScriptIds |-> 0]
    /\ running_scripts = {}
    /\ running_processes = {}
    /\ output_queues = [e \in ExecIds |-> NoQueue]
    /\ proc = [e \in ExecIds |-> NoProc]
    /\ call = [c \in Calls |-> IdleCall]
    /\ run = [e \in ExecIds |-> NoRun]
    /\ cancel = [k \in Cancels |-> IdleCancel]
    /\ artifacts = {}
    /\ alerts = {}
    /\ InitScheduler
    /\ install = NoInstall
    /\ InitEnvironment
    /\ cleanup = IdleCleanup
    /\ InitJobs
    /\ InitAux

\* Every existing row, whatever its status.
all_executions == {e \in ExecIds : Exists(e)}

\* select(Execution).where(Execution.status == RUNNING)
stale_executions == {e \in ExecIds : executions[e].status = RUNNING}

\* The select of cleanup_stale_executions; with no running row the call returns.
cleanup_select ==
    /\ cleanup.pc = "idle"
    /\ cleanup.calls < MaxCleanups
    /\ cleanup' = IF stale_executions = {}
                    THEN [cleanup EXCEPT !.calls = @ + 1]
                    ELSE [cleanup EXCEPT !.pc = "selected",
                                         !.stale_executions = stale_executions]
    /\ UNCHANGED <<exec_vars, sched_vars, install, env_vars, rest_vars>>

\* The loop over the selected rows and the commit: each is set to failed with
\* a finish time and the restart message (an UPDATE by primary key).
cleanup_commit ==
    /\ cleanup.pc = "selected"
    /\ executions' =
         [e \in ExecIds |->
            IF e \in cleanup.stale_executions /\ Exists(e)
              THEN [executions[e] EXCEPT !.status = FAILED,
                                         !.finished_at = Timestamp,
                                         !.error_message = INTERRUPTED]
              ELSE executions[e]]
    /\ cleanup' = [IdleCleanup EXCEPT !.calls = cleanup.calls + 1]
    /\ UNCHANGED <<scripts, deleting, next_id, script_locks, lock_owner,
                   running_scripts, running_processes, output_queues, proc, call,
                   run, cancel, artifacts, alerts, sched_vars, install, env_vars, rest_vars>>

\* ------------------------------------------ SchedulerService, job by job
\* A cron expression is the sequence of its whitespace-separated parts; a
\* part is a number, or Star for "*".  The expressions used: two valid ones,
\* one of 5 parts with a minute out of range, and one of 4 parts.
Star == 0 - 1
EveryMinute == <<Star, Star, Star, Star, Star>>
DailyAtFive == <<0, 5, Star, Star, Star>>
BadMinute == <<61, Star, Star, Star, Star>>
FourParts == <<Star, Star, Star, Star>>
CronExprs == {EveryMinute, DailyAtFive, BadMinute, FourParts}

\* ScriptCreate / ScriptUpdate.validate_cron: the API accepts 5 parts.
validate_cron(v) == Len(v) = 5
ApiExprs == {v \in CronExprs : validate_cron(v)}

\* The ranges CronTrigger accepts for minute, hour, day, month, day_of_week.
FieldRanges == <<0..59, 0..23, 1..31, 1..12, 0..6>>

\* _parse_cron: None unless there are 5 parts and CronTrigger accepts each;
\* the trigger is identified by its fields.
parse_cron(cron_expression) ==
    IF Len(cron_expression) # 5 THEN None
    ELSE IF \E i \in 1..5 : /\ cron_expression[i] # Star
                             /\ cron_expression[i] \notin FieldRanges[i]
      THEN None
    ELSE Some(cron_expression)

\* The Script objects the operations are called with.
ScriptArgs == [id : JobIds, enabled : BOOLEAN, cron_expression : CronExprs]

\* A removal that clears the whole table.
RemoveAll(table, script_id) == [s \in JobIds |-> None]

\* remove_job on a table: the job of the id, if any, is removed.
RemoveJob(table, script_id) == [table EXCEPT ![script_id] = None]

\* An add_job that reports success whatever the expression.
AddJobAlwaysTrue(table, script) ==
    IF ~script.enabled THEN [table |-> table, value |-> FALSE]
    ELSE LET removed == RemoveJob(table, script.id)
             trigger == parse_cron(script.cron_expression) IN
         IF trigger = None THEN [table |-> removed, value |-> TRUE]
         ELSE [table |-> [removed EXCEPT ![script.id] = trigger], value |-> TRUE]

\* add_job on a table: a disabled script returns False; otherwise an existing
\* job of the id is removed, then the expression is parsed: no trigger
\* returns False, a trigger is registered under the id and True returned.
AddJob(table, script) ==
    IF ~script.enabled THEN [table |-> table, value |-> FALSE]
    ELSE LET removed == RemoveJob(table, script.id)
             trigger == parse_cron(script.cron_expression) IN
         IF trigger = None THEN [table |-> removed, value |-> FALSE]
         ELSE [table |-> [removed EXCEPT ![script.id] = trigger], value |-> TRUE]

\* An update_job that leaves the job of a disabled script in place.
UpdateJobKeep(table, script) ==
    IF script.enabled THEN AddJob(RemoveJob(table, script.id), script)
    ELSE [table |-> table, value |-> TRUE]

\* update_job on a table: remove_job, then add_job if the script is enabled.
UpdateJob(table, script) ==
    IF script.enabled THEN AddJob(RemoveJob(table, script.id), script)
    ELSE [table |-> RemoveJob(table, script.id), value |-> TRUE]

\* The Script object of a row.
ScriptOf(s) ==
    [id |-> s, enabled |-> db_scripts[s].enabled,
     cron_expression |-> db_scripts[s].cron_expression]

\* The loop of reload_all_jobs: add_job for each selected script in turn.
RECURSIVE AddJobs(_, _)
AddJobs(table, ids) ==
    IF ids = {} THEN table
    ELSE LET s == CHOOSE x \in ids : \A y \in ids : x <= y IN
         AddJobs(AddJob(table, ScriptOf(s)).table, ids \ {s})

\* select(Script).where(Script.enabled)
EnabledScripts == {s \in JobIds : db_scripts[s].exists /\ db_scripts[s].enabled}

\* A reload that does not clear the table first.
ReloadKeep(table) == AddJobs(table, EnabledScripts)

\* reload_all_jobs on a table: remove_all_jobs, then the loop.
Reload(table) == AddJobs([s \in JobIds |-> None], EnabledScripts)

\* get_next_run_time: the job's next run time, None without a job.
get_next_run_time(table, script_id) ==
    IF table[script_id] # None THEN Some("next_run_time") ELSE None

\* SchedulerService.add_job(script)
add_job(script) ==
    /\ job_table' = AddJob(job_table, script).table
    /\ ret' = [op |-> "add_job", value |-> AddJob(job_table, script).value]
    /\ UNCHANGED <<db_scripts, versions, not_jobs_vars>>

\* SchedulerService.remove_job(script_id)
remove_job(script_id) ==
    /\ job_table' = RemoveJob(job_table, script_id)
    /\ ret' = [op |-> "remove_job", value |-> TRUE]
    /\ UNCHANGED <<db_scripts, versions, not_jobs_vars>>

\* SchedulerService.update_job(script)
update_job_call(script) ==
    /\ job_table' = UpdateJob(job_table, script).table
    /\ ret' = [op |-> "update_job", value |-> UpdateJob(job_table, script).value]
    /\ UNCHANGED <<db_scripts, versions, not_jobs_vars>>

\* SchedulerService.reload_all_jobs(), as POST /reload-scheduler calls it.
reload_scheduler ==
    /\ job_table' = Reload(job_table)
    /\ ret' = [op |-> "reload_all_jobs", value |-> None]
    /\ UNCHANGED <<db_scripts, versions, not_jobs_vars>>

\* SchedulerService.get_next_run_time(script_id)
next_run_time(script_id) ==
    /\ ret' = [op |-> "get_next_run_time",
               value |-> get_next_run_time(job_table, script_id)]
    /\ UNCHANGED <<db_scripts, versions, job_table, not_jobs_vars>>

\* ------------------------------------------- the handlers of /api/scripts
\* POST /scripts: the row and its first version are written; an enabled
\* script is added to the scheduler.
create_script(s, is_enabled, cron_expression) ==
    /\ ~db_scripts[s].exists
    /\ db_scripts' = [db_scripts EXCEPT ![s] =
                        [enabled |-> is_enabled, cron_expression |-> cron_expression,
                         exists |-> TRUE]]
    /\ versions' = [versions EXCEPT ![s] = {cron_expression}]
    /\ job_table' =
         IF is_enabled
           THEN AddJob(job_table, [id |-> s, enabled |-> is_enabled,
                                   cron_expression |-> cron_expression]).table
           ELSE job_table
    /\ ret' = [op |-> "create_script", value |-> None]
    /\ UNCHANGED not_jobs_vars

\* PUT /scripts/{id}: the fields given (None: not given) are set; a version
\* is written when content, dependencies or python version changed; the
\* scheduler is updated when the expression or the enabled flag changed.
update_script(s, is_enabled, cron_expression, content_changed) ==
    /\ db_scripts[s].exists
    /\ LET old == db_scripts[s]
           new == [old EXCEPT
                     !.enabled = IF is_enabled = None THEN @ ELSE is_enabled[1],
                     !.cron_expression =
                        IF cron_expression = None THEN @ ELSE cron_expression[1]]
           schedule_changed == new.cron_expression # old.cron_expression
           enabled_changed == new.enabled # old.enabled
       IN /\ db_scripts' = [db_scripts EXCEPT ![s] = new]
          /\ versions' = IF content_changed
                            THEN [versions EXCEPT ![s] = @ \cup {new.cron_expression}]
                            ELSE versions
          /\ job_table' =
               IF schedule_changed \/ enabled_changed
                 THEN UpdateJob(job_table,
                                [id |-> s, enabled |-> new.enabled,
                                 cron_expression |-> new.cron_expression]).table
                 ELSE job_table
    /\ ret' = [op |-> "update_script", value |-> None]
    /\ UNCHANGED not_jobs_vars

\* POST /scripts/{id}/toggle: enabled is flipped, then update_job.
toggle_script(s) ==
    /\ db_scripts[s].exists
    /\ db_scripts' = [db_scripts EXCEPT ![s].enabled = ~@]
    /\ job_table' = UpdateJob(job_table,
                              [id |-> s, enabled |-> ~db_scripts[s].enabled,
                               cron_expression |-> db_scripts[s].cron_expression]).table
    /\ ret' = [op |-> "toggle_script", value |-> None]
    /\ UNCHANGED <<versions, not_jobs_vars>>

\* POST /scripts/{id}/revert/{n}: the fields of the version, its cron
\* expression among them, are written to the row; the scheduler is not called.
revert_to_version(s, cron_expression) ==
    /\ db_scripts[s].exists
    /\ cron_expression \in versions[s]
    /\ db_scripts' = [db_scripts EXCEPT ![s].cron_expression = cron_expression]
    /\ ret' = [op |-> "revert_to_version", value |-> None]
    /\ UNCHANGED <<versions, job_table, not_jobs_vars>>

\* DELETE /scripts/{id}: remove_job, then the row and its versions go.
delete_script(s) ==
    /\ db_scripts[s].exists
    /\ job_table' = RemoveJob(job_table, s)
    /\ db_scripts' = [db_scripts EXCEPT ![s] = NoScript]
    /\ versions' = [versions EXCEPT ![s] = {}]
    /\ ret' = [op |-> "delete_script", value |-> None]
    /\ UNCHANGED not_jobs_vars

\* ------------------------------------------ the alerts of _finish_execution
\* PUT /scripts/{id} with the alert settings.
update_alert_settings(s, alert_on_failure, alert_on_success) ==
    /\ alert_rows' = [alert_rows EXCEPT ![s].alert_on_failure = alert_on_failure,
                                        ![s].alert_on_success = alert_on_success]
    /\ UNCHANGED <<exec_vars, sched_vars, install, env_vars, cleanup, now, jobs_vars,
                   sent, art_vars, val, more_vars>>

\* The seconds between two values of the clock.
Elapsed(from, to) == (to - from) * SecondsPerTick

\* The throttle of _send_failure_alert: an alert was sent before and less
\* than 3600 seconds have passed since.
FailureThrottled(row) ==
    /\ row.last_alert_at # None
    /\ Elapsed(row.last_alert_at[1], now) < 3600

\* _send_failure_alert, called for a failed or timed-out execution of s.
\* is_sent is what alerting_service.send_failure_alert returns: False when
\* alerts are disabled, no recipient is configured or the mail server fails.
send_failure_alert(s, is_sent) ==
    /\ Len(sent) < MaxAlerts
    /\ IF alert_rows[s].alert_on_failure /\ ~FailureThrottled(alert_rows[s])
         THEN /\ sent' = Append(sent, [script_id |-> s, kind |-> "failure", at |-> now,
                                       is_sent |-> is_sent])
              /\ alert_rows' = [alert_rows EXCEPT ![s].last_alert_at = Timestamp]
         ELSE UNCHANGED <<sent, alert_rows>>
    /\ UNCHANGED <<exec_vars, sched_vars, install, env_vars, cleanup, now, jobs_vars,
                   art_vars, val, more_vars>>

\* _send_success_alert, called for a successful execution of s.
send_success_alert(s, is_sent) ==
    /\ Len(sent) < MaxAlerts
    /\ IF alert_rows[s].alert_on_success
         THEN /\ sent' = Append(sent, [script_id |-> s, kind |-> "success", at |-> now,
                                       is_sent |-> is_sent])
              /\ alert_rows' = [alert_rows EXCEPT ![s].last_alert_at = Timestamp]
         ELSE UNCHANGED <<sent, alert_rows>>
    /\ UNCHANGED <<exec_vars, sched_vars, install, env_vars, cleanup, now, jobs_vars,
                   art_vars, val, more_vars>>

\* ------------------------------------- one execution and its artifacts
\* The names a script may save artifacts under.
Filenames == 1..NumFiles

\* The frame of the steps of this execution.
not_art_vars == <<exec_vars, sched_vars, install, env_vars, cleanup, now, jobs_vars,
                  alert_vars, val, more_vars>>

\* create_subprocess_exec: the process runs; its artifacts directory was
\* created empty and artifacts_metadata starts as the empty list.
art_spawn ==
    /\ art.pc = "idle"
    /\ art' = [NoArt EXCEPT !.pc = "running"]
    /\ disk' = {}
    /\ UNCHANGED not_art_vars

\* The script writes a file into its artifacts directory.
art_write(f) ==
    /\ art.pc = "running"
    /\ disk' = disk \cup {f}
    /\ UNCHANGED <<art, not_art_vars>>

\* A file of the artifacts directory is removed (by the script or from outside).
art_unlink(f) ==
    /\ art.pc \in {"running", "exited"}
    /\ f \in disk
    /\ disk' = disk \ {f}
    /\ UNCHANGED <<art, not_art_vars>>

\* The script saves an artifact: it writes the file f and prints the
\* ARTIFACT_SAVED marker naming f; read_stream reads the line and appends
\* the marker's metadata.
art_save(f) ==
    /\ art.pc = "running"
    /\ Len(art.artifacts_metadata) < MaxMarkers
    /\ disk' = disk \cup {f}
    /\ art' = [art EXCEPT !.artifacts_metadata = Append(@, f)]
    /\ UNCHANGED not_art_vars

\* cancel_execution on the running execution: the process is killed and the
\* row is written as cancelled.
art_cancel ==
    /\ art.pc = "running"
    /\ art.row_status = "running"
    /\ art' = [art EXCEPT !.row_status = CANCELLED]
    /\ UNCHANGED <<disk, not_art_vars>>

\* The process exits and process.wait() returns its exit code (0 or not; a
\* killed process returns a code other than 0).
art_exit(exit_code) ==
    /\ art.pc = "running"
    /\ art.row_status = CANCELLED => exit_code # 0
    /\ art' = [art EXCEPT !.pc = "exited", !.exit_code = Some(exit_code)]
    /\ UNCHANGED <<disk, not_art_vars>>

\* The status _run_script passes to _finish_execution after a process exit.
ExitStatus(a) ==
    IF a.row_status = CANCELLED THEN CANCELLED
    ELSE IF a.exit_code = Some(0) THEN SUCCESS
    ELSE FAILED

\* The artifact block of _finish_execution: one Artifact row for each entry
\* of artifacts_metadata whose file exists, in order.
ArtifactRecords(artifacts_metadata, files) ==
    SelectSeq(artifacts_metadata, LAMBDA f : f \in files)

\* _finish_execution as called after the process exit.  A row found cancelled
\* is backfilled and the function returns; otherwise the row gets the status
\* passed and the Artifact rows are committed with it.
art_finish ==
    /\ art.pc = "exited"
    /\ art' = IF art.row_status = CANCELLED
                THEN [art EXCEPT !.pc = "done"]
                ELSE [art EXCEPT !.pc = "done",
                                 !.row_status = ExitStatus(art),
                                 !.records = ArtifactRecords(art.artifacts_metadata, disk)]
    /\ UNCHANGED <<disk, not_art_vars>>

\* ------------------------------------------------- validate_dependencies
\* The characters a dependency text is made of here: a letter, the five
\* shell characters (the backtick by its name), the comment sign, a dash,
\* two of the characters a version or extras part begins with, and the blank.
Chars == {"a", ";", "&", "|", "backtick", "$", "#", "-", "=", "[", " "}

\* The lines of a text, each a sequence of characters, and the texts: the
\* sequences of lines (the text split at its newlines).
RECURSIVE SeqsUpTo(_, _)
SeqsUpTo(S, n) ==
    IF n = 0 THEN {<<>>}
    ELSE SeqsUpTo(S, n - 1) \cup {Append(q, x) : q \in SeqsUpTo(S, n - 1), x \in S}

Lines == SeqsUpTo(Chars, MaxLineLen)
Texts == SeqsUpTo(Lines, MaxLines)

\* str.strip() on a line: leading and trailing blanks are removed.
RECURSIVE strip(_)
strip(line) ==
    IF line = <<>> THEN line
    ELSE IF Head(line) = " " THEN strip(Tail(line))
    ELSE IF line[Len(line)] = " " THEN strip(SubSeq(line, 1, Len(line) - 1))
    ELSE line

\* The list comprehension at the head of _validate_dependencies_impl: the
\* stripped lines that are not empty and do not start with '#'.
Packages(dependencies) ==
    SelectSeq([i \in 1..Len(dependencies) |-> strip(dependencies[i])],
              LAMBDA pkg : pkg # <<>> /\ Head(pkg) # "#")

\* A shell-character list without the dollar sign.
ShellCharsNoDollar == {";", "&", "|", "backtick"}

\* The characters of the check "contains shell characters".
ShellChars == {";", "&", "|", "backtick", "$"}

\* The characters pkg is split at to get the package name.
NameEnds == {"[", "=", ">", "<", "!"}

\* isalnum() of a character.
isalnum(ch) == ch \in {"a"}

\* pkg.split("[")[0].split("=")[0].split(">")[0].split("<")[0].split("!")[0]:
\* the part of pkg before the first of these characters.
RECURSIVE pkg_name(_)
pkg_name(pkg) ==
    IF pkg = <<>> \/ Head(pkg) \in NameEnds THEN <<>>
    ELSE <<Head(pkg)>> \o pkg_name(Tail(pkg))

\* The format check of one package line.
InvalidPackage(pkg) ==
    \/ \E i \in 1..Len(pkg) : pkg[i] \in ShellChars
    \/ pkg_name(pkg) = <<>>
    \/ ~isalnum(Head(pkg_name(pkg)))

\* validate_dependencies(dependencies) is called: a text that is empty after
\* strip() returns valid at once; otherwise the implementation runs under
\* the validation lock.
validate_dependencies(dependencies) ==
    /\ val.pc = "idle"
    /\ val' = IF \A i \in 1..Len(dependencies) : strip(dependencies[i]) = <<>>
                THEN [NoVal EXCEPT !.pc = "done", !.dependencies = dependencies,
                                   !.valid = TRUE]
                ELSE [NoVal EXCEPT !.pc = "impl", !.dependencies = dependencies]
    /\ UNCHANGED <<exec_vars, sched_vars, install, env_vars, cleanup, now, jobs_vars,
                   alert_vars, art_vars, more_vars>>

\* _validate_dependencies_impl up to the start of the tool: no package line
\* returns valid; an invalid line returns the format message with the valid
\* lines; otherwise the tool is started on the valid lines.
validate_dependencies_impl ==
    /\ val.pc = "impl"
    /\ LET packages == Packages(val.dependencies)
           valid_packages == SelectSeq(packages, LAMBDA pkg : ~InvalidPackage(pkg))
       IN val' = IF packages = <<>>
                   THEN [val EXCEPT !.pc = "done", !.valid = TRUE]
                 ELSE IF \E i \in 1..Len(packages) : InvalidPackage(packages[i])
                   THEN [val EXCEPT !.pc = "done", !.valid = FALSE,
                                    !.message = "Invalid package format",
                                    !.packages = valid_packages]
                 ELSE [val EXCEPT !.pc = "tool", !.invocations = @ + 1,
                                  !.packages = valid_packages]
    /\ UNCHANGED <<exec_vars, sched_vars, install, env_vars, cleanup, now, jobs_vars,
                   alert_vars, art_vars, more_vars>>

\* The tool ends: its output has an error indicator, its return code is not
\* 0, it resolved the packages, it ran into the 60-second timeout, or
\* starting it raised.
validate_tool_done(outcome) ==
    /\ val.pc = "tool"
    /\ val' = CASE outcome = "indicator" ->
                    [val EXCEPT !.pc = "done", !.valid = FALSE,
                                !.message = "Cannot resolve dependencies"]
                [] outcome = "returncode" ->
                    [val EXCEPT !.pc = "done", !.valid = FALSE,
                                !.message = "Resolution error"]
                [] outcome = "resolved" ->
                    [val EXCEPT !.pc = "done", !.valid = TRUE,
                                !.message = "All packages are valid and resolvable"]
                [] outcome = "timeout" ->
                    [val EXCEPT !.pc = "done", !.valid = FALSE,
                                !.message = "Validation timed out", !.packages = <<>>]
                [] OTHER ->
                    [val EXCEPT !.pc = "done", !.valid = FALSE,
                                !.message = "Validation error", !.packages = <<>>]
    /\ UNCHANGED <<exec_vars, sched_vars, install, env_vars, cleanup, now, jobs_vars,
                   alert_vars, art_vars, more_vars>>

\* ------------------------------------------------------------- the clock
\* Time passes: datetime.now(UTC) returns a later value from now on.
clock_tick ==
    /\ now < MaxNow
    /\ now' = now + 1
    /\ UNCHANGED <<exec_vars, sched_vars, install, env_vars, cleanup, jobs_vars,
                   aux_vars>>

\* The process starts on a database in which a previous instance left
\* execution 1, running or ended; new executions get the ids after it.
InitRestart ==
    /\ now = 0
    /\ executions \in {[e \in ExecIds |-> IF e = 1 THEN row ELSE NoRow] :
                          row \in {r \in PersistedRows \ {NoRow} :
                                     /\ r.exit_code = None
                                     /\ r.stdout = None
                                     /\ r.error_message = "none"}}
    /\ next_id = 2
    /\ scripts = ScriptIds
    /\ deleting = {}
    /\ script_locks = {}
    /\ lock_owner = [s \in ScriptIds |-> 0]
    /\ running_scripts = {}
    /\ running_processes = {}
    /\ output_queues = [e \in ExecIds |-> NoQueue]
    /\ proc = [e \in ExecIds |-> NoProc]
    /\ call = [c \in Calls |-> IdleCall]
    /\ run = [e \in ExecIds |-> NoRun]
    /\ cancel = [k \in Cancels |-> IdleCancel]
    /\ artifacts = {}
    /\ alerts = {}
    /\ InitScheduler
    /\ install = NoInstall
    /\ InitEnvironment
    /\ cleanup = IdleCleanup
    /\ InitJobs
    /\ InitAux

\* Several scripts exist; nothing has been executed.
InitConcurrent ==
    /\ now = 0
    /\ scripts = ConcurrentIds
    /\ deleting = {}
    /\ executions = [e \in ExecIds |-> NoRow]
    /\ next_id = 1
    /\ script_locks = {}
    /\ lock_owner = [s \in ConcurrentIds |-> 0]
    /\ running_scripts = {}
    /\ running_processes = {}
    /\ output_queues = [e \in ExecIds |-> NoQueue]
    /\ proc = [e \in ExecIds |-> NoProc]
    /\ call = [c \in Calls |-> IdleCall]
    /\ run = [e \in ExecIds |-> NoRun]
    /\ cancel = [k \in Cancels |-> IdleCancel]
    /\ artifacts = {}
    /\ alerts = {}
    /\ InitScheduler
    /\ install = NoInstall
    /\ InitEnvironment
    /\ cleanup = IdleCleanup
    /\ InitJobs
    /\ InitAux

\* ------------------------------------------------------------------ specifications
ExecuteStep ==
    \/ \E c \in Calls, s \in ScriptIds : execute_script_call(c, s)
    \/ \E c \in Calls : execute_script_acquire(c)
    \/ \E c \in Calls : execute_script_admit(c)
    \/ \E c \in Calls : execute_script_create(c)

RunStep ==
    \/ \E e \in ExecIds, f \in BOOLEAN, v \in BOOLEAN : run_script_lookup(e, f, v)
    \/ \E e \in ExecIds, o \in {"failed", "no_python", "ok"} : run_script_env_setup(e, o)
    \/ \E e \in ExecIds, ok \in BOOLEAN : run_script_spawn(e, ok)
    \/ \E e \in ExecIds : run_script_gather(e)
    \/ \E e \in ExecIds : run_script_exit(e)
    \/ \E e \in ExecIds : run_script_timeout(e)
    \/ \E e \in ExecIds : run_script_killed(e)
    \/ \E e \in ExecIds, a \in BOOLEAN : run_script_refresh(e, a)
    \/ \E e \in ExecIds : finish_execution_refresh(e)
    \/ \E e \in ExecIds : finish_execution_commit(e)
    \/ \E e \in ExecIds, a \in BOOLEAN : finish_execution_alert(e, a)
    \/ \E e \in ExecIds : run_script_early_done(e)
    \/ \E e \in ExecIds : run_script_inner_done(e)
    \/ \E e \in ExecIds : run_script_handler_done(e)

ProcessStep ==
    \/ \E e \in ExecIds : process_closes_streams(e)
    \/ \E e \in ExecIds, code \in {0, 1} : process_exits(e, code)
    \/ Tick

CancelStep ==
    \/ \E k \in Cancels, e \in ExecIds : cancel_execution_call(k, e)
    \/ \E k \in Cancels : cancel_execution_check(k)
    \/ \E k \in Cancels : cancel_execution_reread(k)
    \/ \E k \in Cancels : cancel_execution_commit(k)
    \/ \E k \in Cancels : cancel_execution_done(k)

DeleteStep ==
    \/ \E s \in ScriptIds : delete_script_check(s)
    \/ \E s \in ScriptIds : delete_script_commit(s)

\* Execute calls for several scripts, their runs and their processes.
ConcurrentStep ==
    \/ \E c \in Calls, s \in ConcurrentIds : execute_script_call(c, s)
    \/ \E c \in Calls : execute_script_acquire(c)
    \/ \E c \in Calls : execute_script_admit(c)
    \/ \E c \in Calls : execute_script_create(c)
    \/ RunStep
    \/ ProcessStep

SpecConcurrent == InitConcurrent /\ [][ConcurrentStep]_vars

\* Execute calls and their runs next to one rebuild of the environment.
RebuildStep ==
    \/ ExecuteStep
    \/ RunStep
    \/ ProcessStep
    \/ \E s \in ScriptIds : rebuild_environment(s)
    \/ rebuild_environment_returns

SpecRebuild == Init /\ [][RebuildStep]_vars

Next == ExecuteStep \/ RunStep \/ ProcessStep \/ CancelStep \/ DeleteStep

Spec == Init /\ [][Next]_vars

\* The scheduler: startup, enable/disable of scripts, trigger fires.
SchedulerStep ==
    \/ scheduler_start
    \/ reload_all_jobs
    \/ \E s \in JobIds : toggle_script_commit(s)
    \/ \E s \in JobIds : update_job(s)
    \/ \E s \in JobIds : scheduler_execute_script(s)

SpecScheduler == Init /\ [][SchedulerStep]_vars

\* One streaming dependency install, over every output of every attempt.
InstallStep ==
    \/ \E x \in BOOLEAN, h \in BOOLEAN : install_dependencies_streaming(x, h)
    \/ \E out \in ToolOutputs, r \in BOOLEAN : install_tool_exits(out, r)
    \/ install_retry

SpecInstall == Init /\ [][InstallStep]_vars

\* Concurrent calls on the environment service.
EnvironmentStep ==
    \E o \in OpIds :
        \/ \E n \in EnvNames, d \in BOOLEAN : setup_environment(o, n, d)
        \/ \E n \in EnvNames, d \in BOOLEAN : start_install(o, n, d)
        \/ setup_environment_streaming(o)
        \/ validate_acquire(o)
        \/ \E v \in BOOLEAN : validate_done(o, v)
        \/ create_acquire(o)
        \/ \E ok \in BOOLEAN, pr \in BOOLEAN : create_done(o, ok, pr)
        \/ \E ok \in BOOLEAN, pr \in BOOLEAN : install_cronator_lib_done(o, ok, pr)
        \/ install_acquire(o)
        \/ \E ok \in BOOLEAN, pr \in BOOLEAN : install_done(o, ok, pr)
        \/ \E x \in BOOLEAN : setup_environment_streaming_raises(o, x)
        \/ \E n \in EnvNames : delete_env(o, n)

SpecEnvironment == Init /\ [][EnvironmentStep]_vars

\* cleanup_stale_executions called twice in a row at startup, on every
\* database a previous instance can have left.
CleanupStep == cleanup_select \/ cleanup_commit

SpecCleanup == InitAfterRestart /\ [][CleanupStep]_vars

\* A restart: the lifespan runs cleanup_stale_executions to its end before the
\* application serves requests; then executions are started, run, cancelled
\* and deleted while the clock advances.
RestartStep ==
    \/ cleanup.calls = 0 /\ CleanupStep
    \/ cleanup.calls >= 1 /\ Next
    \/ clock_tick

SpecRestart == InitRestart /\ [][RestartStep]_vars

\* The startup of the application on a database left by a previous instance:
\* the scheduler is started and its jobs loaded, then the cleanup is awaited,
\* then requests are served.  Triggers fire as soon as the scheduler runs;
\* background tasks and processes go on at any time.
StartupStep ==
    \/ scheduler_start
    \/ reload_all_jobs
    \/ \E c \in Calls, s \in JobIds : scheduler_job_fires(c, s)
    \/ lifespan = "started" /\ cleanup.calls = 0 /\ cleanup_select
    \/ lifespan = "started" /\ cleanup.calls = 0 /\ cleanup_commit
    \/ Serving /\ \E c \in Calls, s \in ScriptIds : execute_script_call(c, s)
    \/ \E c \in Calls : execute_script_acquire(c)
    \/ \E c \in Calls : execute_script_admit(c)
    \/ \E c \in Calls : execute_script_create(c)
    \/ RunStep
    \/ ProcessStep

SpecStartup == InitRestart /\ [][StartupStep]_vars

\* One execution's output, from the script's prints to the subscriber and
\* the row.
StreamStep ==
    \/ stream_spawn
    \/ \E k \in StreamKinds, line \in StreamLines : process_writes(k, line)
    \/ process_closes
    \/ \E k \in StreamKinds : read_stream(k)
    \/ stream_gather
    \/ \E exit_code \in {0, 1} : stream_exit(exit_code)
    \/ stream_timeout
    \/ stream_done
    \/ event_get

SpecStream == Init /\ [][StreamStep]_vars

\* The handlers that change scripts, one request after the other.
ScriptsStep ==
    \/ \E s \in JobIds, en \in BOOLEAN, x \in ApiExprs : create_script(s, en, x)
    \/ \E s \in JobIds, en \in {None} \cup {Some(b) : b \in BOOLEAN},
          x \in {None} \cup {Some(v) : v \in ApiExprs}, c \in BOOLEAN :
            update_script(s, en, x, c)
    \/ \E s \in JobIds : toggle_script(s)
    \/ \E s \in JobIds, x \in ApiExprs : revert_to_version(s, x)
    \/ \E s \in JobIds : delete_script(s)

\* Finalized executions of the scripts, changes of their alert settings, and
\* time passing in between.
AlertsStep ==
    \/ \E s \in JobIds, f \in BOOLEAN, su \in BOOLEAN : update_alert_settings(s, f, su)
    \/ \E s \in JobIds, is_sent \in BOOLEAN : send_failure_alert(s, is_sent)
    \/ \E s \in JobIds, is_sent \in BOOLEAN : send_success_alert(s, is_sent)
    \/ clock_tick

SpecAlerts == Init /\ [][AlertsStep]_vars

\* One execution from spawn to finalization, with the script saving
\* artifacts and a cancel request in between.
ArtifactsStep ==
    \/ art_spawn
    \/ \E f \in Filenames : art_write(f)
    \/ \E f \in Filenames : art_unlink(f)
    \/ \E f \in Filenames : art_save(f)
    \/ art_cancel
    \/ \E exit_code \in {0, 1} : art_exit(exit_code)
    \/ art_finish

SpecArtifacts == Init /\ [][ArtifactsStep]_vars

\* One call of validate_dependencies on any text.
ValidateStep ==
    \/ \E dependencies \in Texts : validate_dependencies(dependencies)
    \/ validate_dependencies_impl
    \/ \E outcome \in {"indicator", "returncode", "resolved", "timeout", "raised"} :
          validate_tool_done(outcome)

SpecValidate == Init /\ [][ValidateStep]_vars

SpecScripts == Init /\ [][ScriptsStep]_vars

\* The operations of the scheduler service called with any script object, on
\* any table and any rows that creating and deleting scripts produce.
JobsStep ==
    \/ \E s \in JobIds, en \in BOOLEAN, x \in ApiExprs : create_script(s, en, x)
    \/ \E s \in JobIds : delete_script(s)
    \/ \E script \in ScriptArgs : add_job(script)
    \/ \E s \in JobIds : remove_job(s)
    \/ \E script \in ScriptArgs : update_job_call(script)
    \/ reload_scheduler
    \/ \E s \in JobIds : next_run_time(s)

SpecJobs == Init /\ [][JobsStep]_vars

\* ------------------------------------------------------------------ properties
Range(q) == {q[i] : i \in 1..Len(q)}

\* An execute call that passed the admission check and has not yet created its
\* row (or raised), and a background run that has not yet ended.
CallInFlight(c) == call[c].pc = "admitted"
RunInFlight(e) == run[e].pc \notin {"none", "ended"}
InFlightCalls(s) == {c \in Calls : CallInFlight(c) /\ call[c].script_id = s}
InFlightRuns(s) == {e \in ExecIds : RunInFlight(e) /\ run[e].script_id = s}

\* C1: for every script id, at every instant, at most one execution of the
\* script is in flight (admitted by execute, background run not yet finished),
\* whatever execute calls, cancel calls and run completions interleave.
C1_AtMostOneInFlight ==
    \A s \in ScriptIds : Cardinality(InFlightCalls(s)) + Cardinality(InFlightRuns(s)) <= 1

\* C2: when cancel(e) returned True and the background run of e has ended, the
\* persisted status of e is not success, failed or timeout.
C2_CancelRaceEndsCancelled ==
    \A k \in Cancels :
        LET e == cancel[k].execution_id IN
        (cancel[k].pc = "returned_true" /\ run[e].pc = "ended" /\ Exists(e))
            => executions[e].status \notin {SUCCESS, FAILED, TIMEOUT}

\* C3: a terminal status is absorbing: no step changes the status of a row
\* that is success, failed, timeout or cancelled.
C3_TerminalAbsorbing ==
    [][\A e \in ExecIds :
          (Exists(e) /\ executions[e].status \in TerminalStatuses
             /\ executions'[e] # NoRow)
          => executions'[e].status = executions[e].status]_vars

\* C4: an execution whose process was still alive when the script's timeout
\* had elapsed since the spawn is never persisted as success or failed.
C4_TimeoutEnforced ==
    \A e \in ExecIds :
        (Exists(e) /\ proc[e].age > ScriptTimeout)
            => executions[e].status \notin {SUCCESS, FAILED}

\* C5: a script id stays in the running set only while something is in flight
\* that removes it: once no execute call and no background run of the script
\* is in flight, the script id is not in the running set.
C5_MarkerReleased ==
    \A s \in running_scripts : InFlightCalls(s) # {} \/ InFlightRuns(s) # {}

\* C6: a background run that has ended has put done on its execution's channel.
C6_DoneEmitted ==
    \A e \in ExecIds :
        run[e].pc = "ended" => (output_queues[e] # NoQueue /\ "done" \in Range(output_queues[e]))

\* The calls for script s that were admitted and whose execution has not ended.
AdmittedCalls(s) ==
    {c \in Calls :
        /\ call[c].script_id = s
        /\ \/ call[c].pc = "admitted"
           \/ call[c].pc = "returned" /\ RunInFlight(call[c].execution_id)}

\* C7: of the execute calls issued for one script while no run of it is in
\* flight, one is admitted and every other one is rejected with 'already
\* running' by its own admission check, in that step: the check admits exactly
\* when the script is not marked running, and marks it; the admitted call
\* creates one row in running state and one background run; the per-script
\* lock is held by a call only for its admission check.
C7_AdmissionGate ==
    /\ [](\A s \in ScriptIds : Cardinality(AdmittedCalls(s)) <= 1)
    /\ [](\A s \in ScriptIds :
            lock_owner[s] # 0 => /\ call[lock_owner[s]].pc = "locked"
                                 /\ call[lock_owner[s]].script_id = s)
    /\ [][\A c \in Calls :
            (call[c].pc = "locked" /\ call'[c].pc # "locked")
            => /\ lock_owner'[call[c].script_id] = 0
               /\ IF is_script_running(call[c].script_id)
                    THEN /\ call'[c].pc = "already_running"
                         /\ UNCHANGED <<running_scripts, executions, run>>
                    ELSE /\ call'[c].pc = "admitted"
                         /\ running_scripts' = running_scripts \cup {call[c].script_id}]_vars
    /\ [][\A c \in Calls :
            (call[c].pc = "admitted" /\ call'[c].pc = "returned")
            => LET e == call'[c].execution_id IN
               /\ ~Exists(e)
               /\ executions'[e].status = RUNNING
               /\ executions'[e].script_id = call[c].script_id
               /\ run[e].pc = "none" /\ run'[e].pc = "created"
               /\ \A x \in ExecIds \ {e} :
                     executions'[x] = executions[x] /\ run'[x] = run[x]]_vars

\* Two calls for one script overlap: one is admitted and still inside
\* execute_script, the other has been rejected.
C7_Witness ==
    \E c \in Calls, d \in Calls :
        /\ call[c].script_id = call[d].script_id
        /\ call[c].pc = "admitted"
        /\ call[d].pc = "already_running"

\* C8: isRunning(scriptId) is true at every instant between the admission of
\* an execute call and the end of that execution's background run.
C8_RunningWhileInFlight ==
    /\ \A c \in Calls : CallInFlight(c) => is_script_running(call[c].script_id)
    /\ \A e \in ExecIds : RunInFlight(e) => is_script_running(run[e].script_id)

\* C9: the status check of cancel on a row that does not exist or is not
\* running returns False and changes no row, no entry of the running set, no
\* process and no channel.
C9_CancelNotRunningNoOp ==
    [][\A k \in Cancels :
          LET e == cancel[k].execution_id IN
          (cancel[k].pc = "check" /\ cancel'[k].pc # "check"
             /\ (~Exists(e) \/ executions[e].status # RUNNING))
          => /\ cancel'[k].pc = "returned_false"
             /\ UNCHANGED <<executions, running_scripts, proc, output_queues>>]_vars

\* C10: cancel returns True only if the row ends up cancelled, with a finish
\* time and the message 'Cancelled by user', and the process killed.
C10_CancelTrueMeansCancelled ==
    \A k \in Cancels :
        LET e == cancel[k].execution_id IN
        (cancel[k].pc = "returned_true" /\ Exists(e))
            => /\ executions[e].status = CANCELLED
               /\ executions[e].finished_at # None
               /\ executions[e].error_message = "Cancelled by user"
               /\ proc[e].state # "alive"

\* C11: a finalizer that finds the row cancelled when it refreshes it takes the
\* backfill branch, and its commit leaves status and error message as they
\* are, writes exit code, output and finish time only where the row has none,
\* creates no Artifact row, sends no notification and goes on to no alert.
C11_FinalizerKeepsCancelled ==
    [][\A e \in ExecIds :
          /\ (run[e].pc = "fin_refresh" /\ run'[e].pc # "fin_refresh"
                 /\ Exists(e) /\ executions[e].status = CANCELLED)
             => /\ run'[e].pc = "fin_commit_cancelled"
                /\ UNCHANGED <<executions, artifacts, alerts>>
          /\ (run[e].pc = "fin_commit_cancelled" /\ run'[e].pc # "fin_commit_cancelled"
                 /\ Exists(e))
             => /\ executions[e].status = CANCELLED
                /\ executions'[e].status = CANCELLED
                /\ executions'[e].error_message = executions[e].error_message
                /\ executions[e].exit_code # None
                      => executions'[e].exit_code = executions[e].exit_code
                /\ executions[e].stdout # None
                      => executions'[e].stdout = executions[e].stdout
                /\ executions[e].finished_at # None
                      => executions'[e].finished_at = executions[e].finished_at
                /\ run'[e].pc # "fin_alert"
                /\ UNCHANGED <<artifacts, alerts>>]_vars

\* A cancelled row that the finalizer has backfilled: cancel writes neither
\* exit code nor output.
C11_Witness ==
    \E e \in ExecIds :
        /\ Exists(e)
        /\ executions[e].status = CANCELLED
        /\ executions[e].exit_code # None
        /\ executions[e].stdout # None

\* C12: a delete of a script is accepted (its running-check passes) only while
\* no execute call and no background run of the script is in flight.  Rebuild
\* and install gate on the same is_script_running test.
C12_DestructiveOpsGated ==
    [][\A s \in ScriptIds :
          (s \notin deleting /\ s \in deleting')
          => (InFlightCalls(s) = {} /\ InFlightRuns(s) = {})]_vars

\* C13: every trigger fire of a registered job that the started scheduler
\* delivers within the grace window makes one execute_script call for that
\* script.
C13_FireInvokesExecute ==
    [][\A s \in JobIds :
          fired'[s] = fired[s] + 1 => scheduled_calls'[s] = scheduled_calls[s] + 1]_vars

\* A failed run of the tool classified as transient: it matches a transient
\* pattern and no permanent one; as permanent: it matches a permanent pattern.
Transient(out) == out.returncode # 0 /\ is_retryable(out) /\ ~is_non_retryable(out)
Permanent(out) == out.returncode # 0 /\ is_non_retryable(out)
Unmatched(out) == out.returncode # 0 /\ ~is_retryable(out) /\ ~is_non_retryable(out)

\* C14: a finished install whose every attempt ran the tool to its exit and
\* failed as transient ran the tool exactly max_attempts times, with strictly increasing delays none of
\* which exceeds max_delay; one whose failure was permanent ran it exactly
\* once and slept no delay.
C14_RetryPolicy ==
    install.pc = "done" =>
      LET outs == install.outputs IN
      /\ (/\ outs # <<>>
          /\ ~install.raised
          /\ \A i \in 1..Len(outs) : Transient(outs[i]))
           => /\ install.invocations = max_attempts
              /\ Len(install.delays) = max_attempts - 1
              /\ \A i \in 1..Len(install.delays) :
                    /\ install.delays[i] <= max_delay
                    /\ i > 1 => install.delays[i] > install.delays[i - 1]
      /\ (outs # <<>> /\ Permanent(outs[1]))
           => install.invocations = 1 /\ install.delays = <<>>

\* An install that failed as transient on all of its attempts.
C14_Witness ==
    /\ install.pc = "done"
    /\ install.invocations = max_attempts
    /\ \A i \in 1..Len(install.outputs) : Transient(install.outputs[i])
    /\ Len(install.outputs) = max_attempts

\* C15: a finished install whose last failure matched neither a transient nor
\* a permanent pattern has used up the attempt budget.
C15_UnmatchedExhaustsBudget ==
    (/\ install.pc = "done"
     /\ install.outputs # <<>>
     /\ Unmatched(install.outputs[Len(install.outputs)]))
        => install.invocations = max_attempts

StageOrder == <<"validate", "create", "lib", "install">>
StageIndex(st) == CHOOSE i \in 1..Len(StageOrder) : StageOrder[i] = st

Last(q) == q[Len(q)]

\* C16: a setup_environment call runs its stages in the order validate,
\* create, support library, dependencies; once a stage has failed (the
\* support-library install included) that stage is the last one run and the
\* call has returned failure; a failed validation ran no other stage.
C16_AbortsAtFirstFailingStage ==
    \A o \in OpIds :
        ops[o].kind = "setup" =>
          LET st == ops[o].stages IN
          /\ \A i \in 1..Len(st) - 1 : StageIndex(st[i]) < StageIndex(st[i + 1])
          /\ ops[o].failed # "none"
               => Last(st) = ops[o].failed /\ ops[o].result = "failed"
          /\ ops[o].failed = "validate" => st = <<"validate">>
          /\ ops[o].lib_failed
               => Last(st) = "lib" /\ ops[o].pc = "returned" /\ ops[o].result = "failed"

Count(q, x) == Cardinality({i \in 1..Len(q) : q[i] = x})

\* C17: a setup_environment_streaming call with a channel never puts done
\* twice, puts nothing after done, and once it has returned (success, failed
\* stage or exception) it has put exactly one done, as its last event.
C17_ExactlyOneDoneLast ==
    \A o \in OpIds :
        (Streaming(ops[o]) /\ ops[o].queue # 0) =>
          LET ev == ops[o].events IN
          /\ Count(ev, "done") <= 1
          /\ Count(ev, "done") = 1 => Last(ev) = "done" /\ ops[o].pc = "returned"
          /\ ops[o].pc = "returned" => Count(ev, "done") = 1

\* A streaming call that failed at a stage, reported it and put done.
C17_Witness ==
    \E o \in OpIds :
        /\ Streaming(ops[o])
        /\ ops[o].pc = "returned"
        /\ ops[o].failed \in {"validate", "create", "install"}
        /\ Count(ops[o].events, "error") = 1
        /\ Last(ops[o].events) = "done"

CriticalPcs == {"creating", "installing"}

\* C18: no two create or dependency-install operations are executing for the
\* same script name, and an operation waiting to create or install can go on
\* as soon as no operation of its own name is executing, whatever operations
\* of other names are doing.
C18_OneCreateOrInstallPerName ==
    \A o \in OpIds :
        /\ ops[o].pc \in CriticalPcs
             => \A p \in OpIds \ {o} :
                   ops[p].pc \in CriticalPcs => ops[p].name # ops[o].name
        /\ (/\ ops[o].pc \in {"create_wait", "install_wait"}
            /\ \A p \in OpIds \ {o} :
                  ops[p].pc \in CriticalPcs => ops[p].name # ops[o].name)
             => ENABLED (create_acquire(o) \/ install_acquire(o))

\* Two operations of different names executing at once, one of them
\* streaming and one blocking.
C18_Witness ==
    \E o, p \in OpIds :
        /\ ops[o].pc \in CriticalPcs /\ ops[p].pc \in CriticalPcs
        /\ ops[o].name # ops[p].name
        /\ ops[o].kind = "setup" /\ ops[p].kind = "streaming"

\* C19: an operation that is mutating a script's environment (create,
\* support-library install, dependency install) holds the lock of that name;
\* a validation holds the validation lock and no environment lock.
C19_MutationsHoldTheLock ==
    \A o \in OpIds :
        /\ ops[o].pc \in {"creating", "lib_installing", "installing"}
             => env_locks[get_env_lock(ops[o].name)] = o
        /\ ops[o].pc = "validating"
             => validation_lock = o /\ \A k \in EnvNames : env_locks[k] # o

C21_TerminalHasFinishTime ==
    \A e \in ExecIds :
        /\ executions[e].status \in {"absent", RUNNING} \cup TerminalStatuses
        /\ executions[e].status \in TerminalStatuses
             => /\ executions[e].finished_at # None
                /\ executions[e].finished_at[1] >= executions[e].started_at[1]

\* The row left by the previous instance was ended by the cleanup, and an
\* execution started later than that was ended at a later time still.
C21_Witness ==
    /\ executions[1].status = FAILED
    /\ executions[1].error_message = INTERRUPTED
    /\ \E e \in ExecIds \ {1} :
          /\ executions[e].status \in TerminalStatuses
          /\ executions[e].started_at[1] > 0
          /\ executions[e].finished_at[1] > executions[e].started_at[1]

\* The message of each early failure of the background run.
EarlyMessage(found) ==
    CASE found = "no_file" -> "Script file not found"
      [] found = "setup_failed" -> "Failed to setup environment"
      [] found = "no_python" -> "Python not found"
      [] OTHER -> "none"

EarlyFailures == {"no_file", "setup_failed", "no_python"}

\* C22: a background run that found the script file missing, the blocking
\* setup failed or the interpreter absent never has a process; it finalizes
\* its row, as long as the row exists, as failed with the message of what it
\* found, and the row is so when _finish_execution has returned; setup is
\* awaited only by a run that found no environment.
C22_EarlyFailuresFinalizeFailed ==
    /\ [](\A e \in ExecIds :
            /\ run[e].found \in EarlyFailures
                 => /\ proc[e].state = "none"
                    /\ e \notin running_processes
                    /\ run[e].pc \notin {"spawn", "gather", "wait"}
            /\ (run[e].found \in EarlyFailures /\ run[e].pc = "early_sleep" /\ Exists(e))
                 => /\ executions[e].status = FAILED
                    /\ executions[e].error_message = EarlyMessage(run[e].found)
            /\ run[e].pc = "env_setup" <=> run[e].found = "no_env")
    /\ [][\A e \in ExecIds :
            (/\ run[e].found \in EarlyFailures
             /\ run[e].site = "early"
             /\ run[e].pc = "fin_refresh"
             /\ run'[e].pc # "fin_refresh"
             /\ Exists(e))
            => run'[e].pc = "fin_commit"]_vars
    /\ [][\A e \in ExecIds :
            (/\ run[e].found \in EarlyFailures
             /\ run[e].site = "early"
             /\ run[e].pc = "fin_commit"
             /\ run'[e].pc # "fin_commit"
             /\ Exists(e))
            => /\ executions'[e].status = FAILED
               /\ executions'[e].error_message = EarlyMessage(run[e].found)]_vars

\* A run whose setup failed has finalized its row as failed with the setup
\* message, and no process exists for it.
C22_Witness ==
    \E e \in ExecIds :
        /\ run[e].found = "setup_failed"
        /\ run[e].pc = "early_sleep"
        /\ executions[e].status = FAILED
        /\ executions[e].error_message = "Failed to setup environment"
        /\ proc[e].state = "none"

C25_JobTableIsImage ==
    \A s \in JobIds :
        /\ job_table[s] # None
              <=> /\ db_scripts[s].exists
                  /\ db_scripts[s].enabled
                  /\ parse_cron(db_scripts[s].cron_expression) # None
        /\ job_table[s] # None
              => job_table[s] = Some(db_scripts[s].cron_expression)

\* The table that holds exactly the jobs of the enabled rows whose expression
\* has a trigger.
JobsOfScripts ==
    [s \in JobIds |->
        IF db_scripts[s].exists /\ db_scripts[s].enabled
          THEN parse_cron(db_scripts[s].cron_expression)
          ELSE None]

C27_OneAlertPerInterval ==
    \A i \in 1..Len(sent) : \A j \in 1..Len(sent) :
        (i < j /\ sent[i].script_id = sent[j].script_id
               /\ sent[i].is_sent /\ sent[j].is_sent)
           => Elapsed(sent[i].at, sent[j].at) >= 3600

\* C28: on finalization after a process exit, the Artifact rows are exactly
\* the markers parsed from stdout whose file exists in the artifacts
\* directory at that moment, and the row's status is the one the exit gave,
\* whether or not a file is missing.
C28_RecordsForExistingFiles ==
    [][art_finish =>
          /\ art'.records = SelectSeq(art.artifacts_metadata, LAMBDA f : f \in disk)
          /\ art'.row_status = ExitStatus(art)]_vars

\* The steps of the background run of execution e and of its process.
StepsOf(e) ==
    \/ \E f \in BOOLEAN, v \in BOOLEAN : run_script_lookup(e, f, v)
    \/ \E o \in {"failed", "no_python", "ok"} : run_script_env_setup(e, o)
    \/ \E ok \in BOOLEAN : run_script_spawn(e, ok)
    \/ run_script_gather(e)
    \/ run_script_exit(e)
    \/ run_script_timeout(e)
    \/ run_script_killed(e)
    \/ \E a \in BOOLEAN : run_script_refresh(e, a)
    \/ finish_execution_refresh(e)
    \/ finish_execution_commit(e)
    \/ \E a \in BOOLEAN : finish_execution_alert(e, a)
    \/ run_script_early_done(e)
    \/ run_script_inner_done(e)
    \/ run_script_handler_done(e)
    \/ process_closes_streams(e)
    \/ \E code \in {0, 1} : process_exits(e, code)

Specifiers(text) ==
    SelectSeq([i \in 1..Len(text) |-> strip(text[i])],
              LAMBDA line : line # <<>> /\ Head(line) # "#")

\* A specifier with one of the characters ; & | ` $.
HasShellCharacter(spec) ==
    \E i \in 1..Len(spec) : spec[i] \in {";", "&", "|", "backtick", "$"}

\* A specifier whose package name does not start with an alphanumeric
\* character.
NameNotAlphanumeric(spec) == spec[1] # "a"

\* C30: a call that has returned on a text with a specifier that has a shell
\* character or a package name not starting with an alphanumeric character
\* returned invalid and never started the tool; a call that has returned on a
\* text without specifiers (empty, blank or comments only) returned valid and
\* never started the tool.
C30_RejectsBeforeResolution ==
    val.pc = "done" =>
       LET specs == Specifiers(val.dependencies) IN
       /\ (\E i \in 1..Len(specs) :
               HasShellCharacter(specs[i]) \/ NameNotAlphanumeric(specs[i]))
             => (~val.valid /\ val.invocations = 0)
       /\ specs = <<>> => (val.valid /\ val.invocations = 0)

\* A call has returned invalid without the tool on a text whose first line is
\* a well-formed specifier and whose second has a dollar sign.
C30_Witness ==
    /\ val.pc = "done"
    /\ val.dependencies = << <<"a">>, <<"a", "$">> >>
    /\ ~val.valid
    /\ val.invocations = 0
    /\ val.packages = << <<"a">> >>

\* C31: on the channel of every execution a done event is the last event
\* put: nothing is put after it, and it is not put a second time.
C31_DoneIsLastAndOnce ==
    \A e \in ExecIds :
        output_queues[e] # NoQueue =>
            \A i \in 1..Len(output_queues[e]) :
                output_queues[e][i] = "done" => i = Len(output_queues[e])

\* A finished streaming install that ran the tool, every run of which exited
\* with the same answer.
SameAnswers ==
    /\ install.pc = "done"
    /\ ~install.raised
    /\ install.outputs # <<>>
    /\ \A i \in 1..Len(install.outputs) : install.outputs[i] = install.outputs[1]

\* C32: with the tool answering identically on every invocation, the
\* streaming install reports the outcome that install_dependencies reports on
\* that answer.
C32_SameOutcome ==
    SameAnswers => install.result = install_dependencies(TRUE, TRUE, install.outputs[1])

\* The executions of a script whose spawned process is running.
RunningProcesses(s) ==
    {e \in ExecIds : run[e].script_id = s /\ proc[e].state = "alive"}

\* C33: while the setup_environment of an accepted rebuild is in progress no
\* process of that script spawned by the executor is running.
C33_NoMutationWhileRunning ==
    rebuild.pc = "setup" => RunningProcesses(rebuild.script_id) = {}

\* The executions the current process instance can start: the ids after the
\* row the previous instance left.
CurrentInstance == {e \in ExecIds : e >= 2}

RECURSIVE EventsOf(_, _)
EventsOf(events, k) ==
    IF events = <<>> THEN <<>>
    ELSE IF Head(events)[1] = k
      THEN <<Head(events)[2]>> \o EventsOf(Tail(events), k)
      ELSE EventsOf(Tail(events), k)

IsPrefix(p, q) == Len(p) <= Len(q) /\ SubSeq(q, 1, Len(p)) = p

\* A persisted text as the sequence of its lines; no text is the empty one.
TextOf(column) == IF column = None THEN <<>> ELSE column[1]

\* The stdout events and the stderr events put are in the order written.
StreamOrder ==
    \A k \in StreamKinds : IsPrefix(EventsOf(stream.queue, k), stream.pipe[k])

\* The subscriber gets the events in the order put.
ChannelFifo == IsPrefix(stream.delivered, stream.queue)

\* C35: stdout events are put in the order written, stderr events likewise,
\* the subscriber gets the events in the order put, and once the execution
\* has ended the persisted stdout and stderr are the concatenations of the
\* stdout events and of the stderr events.
C35_OrderedAndPersisted ==
    /\ StreamOrder
    /\ ChannelFifo
    /\ stream.pc = "done" =>
          /\ TextOf(stream.stdout) = EventsOf(stream.queue, "stdout")
          /\ TextOf(stream.stderr) = EventsOf(stream.queue, "stderr")

\* The streaming setups of a script that start_install has accepted and that
\* have not yet put done.
AcceptedSetups(n) ==
    {o \in OpIds : /\ Streaming(ops[o])
                   /\ ops[o].name = n
                   /\ ops[o].pc \in {"scheduled"} \cup InFlightPcs}

\* C36: for each script at most one accepted streaming setup has not yet put
\* done, and while there is one is_installing is true, so that start_install
\* is refused.
C36_OneStreamingSetupPerScript ==
    \A n \in EnvNames :
        /\ Cardinality(AcceptedSetups(n)) <= 1
        /\ AcceptedSetups(n) # {} => active_installs[n]

\* C37: a script's last_alert_at is the time of a notification for that
\* script which the alerting service reported as sent.
C37_LastAlertOnlyWhenSent ==
    \A s \in JobIds :
        alert_rows[s].last_alert_at # None =>
            \E i \in 1..Len(sent) :
                /\ sent[i].script_id = s
                /\ sent[i].is_sent
                /\ Some(sent[i].at) = alert_rows[s].last_alert_at

\* A failed run of the tool whose output matches a transient pattern and a
\* permanent pattern.
MatchesBoth(out) ==
    /\ out.returncode # 0
    /\ out.lines \cap RETRYABLE_NETWORK_ERRORS # {}
    /\ out.lines \cap NON_RETRYABLE_ERRORS # {}

\* C38: an attempt of the streaming install that failed with output matching
\* both a transient and a permanent pattern is the last attempt: the install
\* has returned failure, no run of the tool and no delay followed it.
C38_BothPatternsIsPermanent ==
    \A i \in 1..Len(install.outputs) :
        MatchesBoth(install.outputs[i]) =>
            /\ i = Len(install.outputs)
            /\ install.pc = "done"
            /\ install.result = "failed"
            /\ install.invocations = i
            /\ Len(install.delays) = i - 1

\* A first attempt failed as transient and was retried after a delay; the
\* second matched both patterns and ended the install.
C38_Witness ==
    /\ Len(install.outputs) = 2
    /\ Transient(install.outputs[1])
    /\ MatchesBoth(install.outputs[2])
    /\ install.pc = "done"
    /\ install.result = "failed"
    /\ install.delays = <<Delay(1)>>

\* C39: an add_job call that returns False leaves the job table as it was.
C39_RejectedAddJobChangesNothing ==
    [][\A script \in ScriptArgs :
          (add_job(script) /\ ret'.value = FALSE) => job_table' = job_table]_vars

\* C40: remove_job returns True whether or not the id had a job; afterwards
\* the id has no job and get_next_run_time gives None for it, and the jobs of
\* the other ids are as they were; get_next_run_time returns a time exactly
\* for the ids that have a job.
C40_RemoveJobContract ==
    [][/\ \A s \in JobIds :
             remove_job(s) =>
                /\ ret'.value = TRUE
                /\ job_table'[s] = None
                /\ get_next_run_time(job_table', s) = None
                /\ \A t \in JobIds \ {s} : job_table'[t] = job_table[t]
       /\ \A s \in JobIds :
             next_run_time(s) => (ret'.value # None <=> job_table[s] # None)]_vars

\* remove_job has returned True; the job of script 1, an enabled script with
\* a valid expression, is gone and the job of script 2 is in place.
C40_Witness ==
    /\ ret = [op |-> "remove_job", value |-> TRUE]
    /\ db_scripts[1].exists /\ db_scripts[1].enabled
    /\ parse_cron(db_scripts[1].cron_expression) # None
    /\ job_table[1] = None
    /\ job_table[2] # None

====
